---------------------------- MODULE Spec2Model ----------------------------
(***************************************************************************)
(* A model of the aerosim coordination core: the Orchestrator's load /     *)
(* start / stop calls, its main thread (renderer handshake, initial        *)
(* barrier, tick loop with the sync-topic barrier), the transport          *)
(* callbacks that feed the barrier channel and the scene-graph queue, the   *)
(* scene-graph update, the SimClock and the data recorder.                 *)
(***************************************************************************)
EXTENDS Integers, Sequences, FiniteSets, TLC

-----------------------------------------------------------------------------
(* Bounds of the model *)

\* clock ticks one run of the main loop may publish
MaxTicks == 3
\* notifications that may be pending in the (unbounded) barrier channel
MaxChan == 2
\* the elapsed wall time, in whole seconds, a wait loop reads after a long delay
MaxElapsed == 61
\* load() calls and start() calls the caller makes
MaxLoads == 1
MaxStarts == 1
\* messages the callback takes in one run, where they are counted
MaxReceived == 5
\* entries the callback may have put in the scene-graph queue and not yet taken
MaxQueue == 2
\* step() calls on a SimClock taken on its own
MaxSteps == 3
\* write() calls and stop() calls on a DataManager taken on its own
MaxWrites == 3
MaxStops == 2

-----------------------------------------------------------------------------
(* Program constants *)

\* Duration::from_secs(30) of both renderer handshakes
TimeoutRenderersReady == 30
\* retry_num % 5 == 0 in load()
RetryEvery == 5
\* Duration::from_secs(60) of the initial barrier
TimeoutInitialSyncTopics == 60
NanosPerMilli == 1000000
MillisPerSec == 1000
NanosPerSec == 1000000000

-----------------------------------------------------------------------------
(* TimeStamp {sec, nanosec} *)

TimeStampNew(s, n) == [sec |-> s, nanosec |-> n]

\* TimeStamp::from_millis: Duration::from_millis, then as_secs / subsec_nanos
from_millis(ms) ==
    [sec |-> ms \div MillisPerSec, nanosec |-> (ms % MillisPerSec) * NanosPerMilli]

\* TimeStamp::to_millis
to_millis(t) == t.sec * MillisPerSec + t.nanosec \div NanosPerMilli

\* derive(PartialOrd, Ord): seconds first, then nanoseconds
TimeStampCmp(a, b) ==
    IF a.sec < b.sec THEN "Less"
    ELSE IF a.sec > b.sec THEN "Greater"
    ELSE IF a.nanosec < b.nanosec THEN "Less"
    ELSE IF a.nanosec > b.nanosec THEN "Greater"
    ELSE "Equal"

-----------------------------------------------------------------------------
(* Sim configs the caller may hand to load().  interval_ms = NoInterval     *)
(* stands for an entry whose interval_ms is absent (as_u64() is None).      *)
(* topics are the actor and FMU topics start() subscribes to, sg_topics     *)
(* those of them that are scene-graph (actor state) topics;                 *)
(* update_interval_ms is world.update_interval_ms (0 also when absent).     *)

NoInterval == -1

SyncEntry(t, i) == [topic |-> t, interval_ms |-> i]

Configs ==
    << \* no sync topic, no renderer, recorder disabled
       [step_size_ms |-> 20, sync_topics |-> << >>,
        topics |-> {"a"}, renderers |-> {}, record |-> FALSE,
        sg_topics |-> {}, update_interval_ms |-> 0],
       \* one sync topic at the step rate, one renderer, recorder enabled
       [step_size_ms |-> 20, sync_topics |-> << SyncEntry("a", 20) >>,
        topics |-> {"a"}, renderers |-> {"R1"}, record |-> TRUE,
        sg_topics |-> {}, update_interval_ms |-> 0],
       \* a one-second sync topic under a 20 ms step
       [step_size_ms |-> 20, sync_topics |-> << SyncEntry("a", 1000) >>,
        topics |-> {"a"}, renderers |-> {}, record |-> FALSE,
        sg_topics |-> {}, update_interval_ms |-> 0],
       \* a slower sync topic and one without interval
       [step_size_ms |-> 20,
        sync_topics |-> << SyncEntry("a", 40), SyncEntry("b", NoInterval) >>,
        topics |-> {"a", "b"}, renderers |-> {}, record |-> FALSE,
        sg_topics |-> {}, update_interval_ms |-> 0],
       \* whole-second steps, intervals with a seconds part
       [step_size_ms |-> 1000,
        sync_topics |-> << SyncEntry("a", 2000), SyncEntry("b", 0) >>,
        topics |-> {"a", "b"}, renderers |-> {}, record |-> FALSE,
        sg_topics |-> {}, update_interval_ms |-> 0],
       \* an interval with both parts set
       [step_size_ms |-> 500, sync_topics |-> << SyncEntry("a", 1500) >>,
        topics |-> {"a"}, renderers |-> {}, record |-> FALSE,
        sg_topics |-> {}, update_interval_ms |-> 0],
       \* an actor state topic, no sync topic, scene graph updated every 40 ms
       [step_size_ms |-> 20, sync_topics |-> << >>,
        topics |-> {"t"}, renderers |-> {}, record |-> FALSE,
        sg_topics |-> {"t"}, update_interval_ms |-> 40],
       \* an actor state topic that is a sync topic as well, no update interval
       [step_size_ms |-> 20, sync_topics |-> << SyncEntry("t", 20) >>,
        topics |-> {"t"}, renderers |-> {}, record |-> FALSE,
        sg_topics |-> {"t"}, update_interval_ms |-> 0],
       \* a sync topic that no actor and no FMU model declares
       [step_size_ms |-> 20, sync_topics |-> << SyncEntry("s", 20) >>,
        topics |-> {"a"}, renderers |-> {}, record |-> FALSE,
        sg_topics |-> {}, update_interval_ms |-> 0] >>

\* The configs with an actor state topic
SceneConfigIds == {c \in 1..Len(Configs) : Configs[c].sg_topics # {}}
\* The configs with a sync topic that is not among the actor and FMU topics
UndeclaredSyncConfigIds ==
    {c \in 1..Len(Configs) :
        \E i \in 1..Len(Configs[c].sync_topics) :
            Configs[c].sync_topics[i].topic \notin Configs[c].topics}
\* The configs with neither
ConfigIds == (1..Len(Configs)) \ (SceneConfigIds \cup UndeclaredSyncConfigIds)
\* serde_json::Value::Null, the sim_config of a new Orchestrator
NullConfig == 0

RendererIds == {"R1"}

\* What start_time.elapsed() may read, in whole seconds, when it read e before:
\* the same second, the next one, or one far beyond every deadline
ElapsedAfter(e) == {e, e + 1, MaxElapsed} \cap (e..MaxElapsed)
\* The same after a sleep of at least a second
ElapsedAfterSleep(e) == ElapsedAfter(e) \ {e}
Statuses == {"config_loaded", "scene_graph_loaded", "config_error"}


Cfg(id) == Configs[id]

-----------------------------------------------------------------------------
(* Pure functions of the orchestrator and the clock *)

\* One (topic, interval) entry of sync_topic_data, as start() builds it
SyncTopicEntry(e) ==
    [topic |-> e.topic,
     interval |-> IF e.interval_ms >= 0 THEN from_millis(e.interval_ms)
                  ELSE TimeStampNew(0, 0)]

\* The sync_topic_data vector start() builds from orchestrator.sync_topics
BuildSyncTopicData(c) ==
    [i \in 1..Len(Cfg(c).sync_topics) |-> SyncTopicEntry(Cfg(c).sync_topics[i])]

\* get_sync_topics_for_simtime with the nanoseconds comparison left out
get_sync_topics_for_simtime_SecOnly(sync_data, t) ==
    {sync_data[i].topic :
        i \in {j \in 1..Len(sync_data) :
                  IF sync_data[j].interval.sec > 0
                  THEN t.sec % sync_data[j].interval.sec = 0 ELSE TRUE}}

\* The body of the for loop of get_sync_topics_for_simtime
RECURSIVE SyncTopicsLoop(_, _, _, _)
SyncTopicsLoop(data, t, i, topics_to_sync) ==
    IF i > Len(data) THEN topics_to_sync
    ELSE LET interval == data[i].interval
             sec_match == IF interval.sec > 0
                          THEN t.sec % interval.sec = 0 ELSE TRUE
             nanosec_match == IF interval.nanosec > 0
                              THEN t.nanosec % interval.nanosec = 0 ELSE TRUE
         IN SyncTopicsLoop(data, t, i + 1,
                IF sec_match /\ nanosec_match
                THEN topics_to_sync \cup {data[i].topic} ELSE topics_to_sync)

get_sync_topics_for_simtime(sync_data, t) == SyncTopicsLoop(sync_data, t, 1, {})

\* SimClock::step adding the nanoseconds without the carry into the seconds
StepTime_NoCarry(t, step_ms) ==
    [sec |-> t.sec + step_ms \div MillisPerSec,
     nanosec |-> t.nanosec + (step_ms % MillisPerSec) * NanosPerMilli]

\* SimClock::step's new sim time: Duration(sec, nanosec) + step_size
StepTime(t, step_ms) ==
    LET ns == t.nanosec + (step_ms % MillisPerSec) * NanosPerMilli
    IN [sec |-> t.sec + step_ms \div MillisPerSec + ns \div NanosPerSec,
        nanosec |-> ns % NanosPerSec]

\* mpsc try_recv: "ok" with the head, "empty", or "disconnected" (no sender
\* left and nothing queued)
TryRecv(q, tx_alive) ==
    IF Len(q) > 0 THEN "ok" ELSE IF tx_alive THEN "empty" ELSE "disconnected"

\* poll_messages: at most one notification is taken, then the stop channel is
\* looked at.  Yields the new sync set, both channels and keep_running.
poll_messages(sync_topics, msgs, msg_tx_alive, stops, stop_tx_alive) ==
    IF sync_topics = {}
    THEN [keep_running |-> TRUE, sync_topics |-> sync_topics,
          rx_msg |-> msgs, rx_stop |-> stops]
    ELSE LET m == TryRecv(msgs, msg_tx_alive)
             s == TryRecv(stops, stop_tx_alive)
             after_msg == m # "disconnected"
             after_stop == IF s = "ok" THEN (IF Head(stops) THEN FALSE ELSE after_msg)
                           ELSE IF s = "disconnected" THEN FALSE ELSE after_msg
         IN [keep_running |-> after_stop,
             sync_topics |-> IF m = "ok" THEN sync_topics \ {Head(msgs)}
                             ELSE sync_topics,
             rx_msg |-> IF m = "ok" THEN Tail(msgs) ELSE msgs,
             rx_stop |-> IF s = "ok" THEN Tail(stops) ELSE stops]

-----------------------------------------------------------------------------
(* The scene graph: the callback's inputs, load_world and update_world *)

\* Sim timestamps and states a message on an actor state topic may carry
StateStamps == {from_millis(8), from_millis(16)}
StateIds == {1, 2}

\* What a message on topic t may be, as far as the callback looks at it: its
\* metadata may fail to deserialize; on an actor state topic its payload may
\* fail to deserialize as a scene-graph state, or carries a timestamp and a
\* state (on other topics the payload is not looked at)
CallbackInputs(c, t) ==
    {[meta_ok |-> FALSE, state_ok |-> FALSE, timestamp |-> TimeStampNew(0, 0),
      state |-> 0]}
    \cup (IF t \in Cfg(c).sg_topics
          THEN {[meta_ok |-> TRUE, state_ok |-> TRUE, timestamp |-> ts, state |-> p] :
                    ts \in StateStamps, p \in StateIds}
               \cup {[meta_ok |-> TRUE, state_ok |-> FALSE,
                      timestamp |-> TimeStampNew(0, 0), state |-> 0]}
          ELSE {[meta_ok |-> TRUE, state_ok |-> TRUE,
                 timestamp |-> TimeStampNew(0, 0), state |-> 0]})

\* SceneGraph::new
NewSceneGraph == [update_interval_ms |-> 0, last_update_time |-> 0, applied |-> << >>]

\* load_world: the update interval is read and an entity is made for every
\* actor; applied is the state last applied to the entity of each state topic
\* (0: none yet)
load_world(c) ==
    [update_interval_ms |-> Cfg(c).update_interval_ms, last_update_time |-> 0,
     applied |-> [t \in Cfg(c).sg_topics |-> 0]]

\* update_world, the loop over the drained queue: latest_data_topic_map keeps
\* for each topic an entry that a later one replaces if its timestamp is greater
RECURSIVE LatestLoop(_, _, _)
LatestLoop(queue, i, latest) ==
    IF i > Len(queue) THEN latest
    ELSE LET e == queue[i]
             insert == IF e.topic \in DOMAIN latest
                       THEN TimeStampCmp(e.timestamp, latest[e.topic].timestamp)
                               = "Greater"
                       ELSE TRUE
         IN LatestLoop(queue, i + 1,
                IF insert
                THEN [x \in DOMAIN latest \cup {e.topic} |->
                         IF x = e.topic THEN e ELSE latest[x]]
                ELSE latest)

\* update_world: nothing is done (None) while less than update_interval has
\* passed since the last update; else the latest entry of each topic is
\* applied to its entity and the update is generated (Some)
update_world(sg, data_queue, t) ==
    IF to_millis(t) - sg.last_update_time < sg.update_interval_ms
    THEN [emitted |-> FALSE, scene_graph |-> sg]
    ELSE LET latest == LatestLoop(data_queue, 1, << >>)
         IN [emitted |-> TRUE,
             scene_graph |->
                 [sg EXCEPT !.last_update_time = to_millis(t),
                            !.applied = [x \in DOMAIN sg.applied |->
                                            IF x \in DOMAIN latest
                                            THEN latest[x].state
                                            ELSE sg.applied[x]]]]

-----------------------------------------------------------------------------
(* WorldCoordinate: the four stored representations.  The geodetic
   conversions are floating-point functions of the input, the origin and the
   ellipsoid; a stored representation is kept as the name of the conversion
   that produced it and the input it was given ("": the input as given),
   next to the origin the object was made with.  The ellipsoid is WGS84
   throughout. *)

Given(v) == [conv |-> "", input |-> v]
Conv(name, v) == [conv |-> name, input |-> v]

\* WorldCoordinate::new(origin_lat, origin_lon, origin_alt, ellipsoid): ned is
\* (0, 0, 0), the others converted from it
WorldCoordinateOf(origin) ==
    [ned |-> Given(<< 0, 0, 0 >>),
     lla |-> Conv("ned_to_lla", << 0, 0, 0 >>),
     ecef |-> Conv("ned_to_ecef", << 0, 0, 0 >>),
     cartesian |-> Conv("ned_to_cartesian", << 0, 0, 0 >>),
     origin_lla |-> origin]

\* WorldCoordinate::new with its default origin (0, 0, 0)
WorldCoordinateNew == WorldCoordinateOf(<< 0, 0, 0 >>)

\* WorldCoordinate::set_ned
set_ned(wc, v) ==
    [wc EXCEPT !.ned = Given(v),
               !.lla = Conv("ned_to_lla", v),
               !.ecef = Conv("ned_to_ecef", v),
               !.cartesian = Conv("ned_to_cartesian", v)]

\* WorldCoordinate::set_lla
set_lla(wc, v) ==
    [wc EXCEPT !.lla = Given(v),
               !.ned = Conv("lla_to_ned", v),
               !.ecef = Conv("lla_to_ecef", v),
               !.cartesian = Conv("lla_to_cartesian", v)]

\* WorldCoordinate::set_ecef: ecef, ned and lla are assigned (the assignment
\* of cartesian is commented out)
set_ecef(wc, v) ==
    [wc EXCEPT !.ecef = Given(v),
               !.ned = Conv("ecef_to_ned", v),
               !.lla = Conv("ecef_to_lla", v)]

\* WorldCoordinate::set_cartesian: cartesian, ned and lla are assigned (the
\* assignment of ecef is commented out)
set_cartesian(wc, v) ==
    [wc EXCEPT !.cartesian = Given(v),
               !.ned = Conv("cartesian_to_ned", v),
               !.lla = Conv("cartesian_to_lla", v)]

\* WorldCoordinate::from_ned(north, east, down, origin_lat, origin_lon,
\* origin_alt, ellipsoid)
from_ned(v, origin) == set_ned(WorldCoordinateOf(origin), v)

NoCoordCall == [op |-> "none", input |-> << 0, 0, 0 >>]

\* Inputs of the mutators
CoordPoints == {<< 0, 0, 0 >>, << 10, 0, 0 >>, << 0, 10, 0 >>, << 0, 0, 10 >>,
                << 1, 2, 3 >>}

-----------------------------------------------------------------------------
(* The SceneGraph's ECS world: frame conversion, load_world, the transform
   systems, update_world and generate_scene_graph_json.  Positions are
   integer triples (exact in f32 and f64); every rotation given is the
   identity (rpy (0, 0, 0), orientation (0, 0, 0, 1)) and every scale 1, so a
   global transform is a translation. *)

\* Quat::from_rotation_y and from_rotation_z of q quarter turns (q = 1 or -1,
\* angle q * PI / 2), as (x, y, z, w) scaled by sqrt(2)
from_rotation_y(q) == [x |-> 0, y |-> q, z |-> 0, w |-> 1]
from_rotation_z(q) == [x |-> 0, y |-> 0, z |-> q, w |-> 1]

\* Quat multiplication (Hamilton product)
QuatMul(a, b) ==
    [w |-> a.w * b.w - a.x * b.x - a.y * b.y - a.z * b.z,
     x |-> a.w * b.x + a.x * b.w + a.y * b.z - a.z * b.y,
     y |-> a.w * b.y - a.x * b.z + a.y * b.w + a.z * b.x,
     z |-> a.w * b.z + a.x * b.y - a.y * b.x + a.z * b.w]

QuatConj(a) == [w |-> a.w, x |-> -a.x, y |-> -a.y, z |-> -a.z]
QuatNorm2(a) == a.w * a.w + a.x * a.x + a.y * a.y + a.z * a.z

\* Transform::from_rotation(q).transform_point(p): q p q* over |q|^2
transform_point(q, p) ==
    LET r == QuatMul(QuatMul(q, [w |-> 0, x |-> p[1], y |-> p[2], z |-> p[3]]),
                     QuatConj(q))
        n == QuatNorm2(q)
    IN << r.x \div n, r.y \div n, r.z \div n >>

\* SceneGraph::new: the two frame rotations
rotate_bevy_to_ned == QuatMul(from_rotation_y(-1), from_rotation_z(1))
rotate_ned_to_bevy == QuatMul(from_rotation_z(-1), from_rotation_y(1))

\* SceneGraph::bevy_xyz_to_ned
bevy_xyz_to_ned(bevy_point) == transform_point(rotate_bevy_to_ned, bevy_point)

\* the conversion as (n, e, d) -> (e, -d, n)
ned_to_bevy_xyz_Mirrored(ned_point) ==
    << ned_point[2], -ned_point[3], ned_point[1] >>

\* SceneGraph::ned_to_bevy_xyz
ned_to_bevy_xyz(ned_point) == transform_point(rotate_ned_to_bevy, ned_point)

Vec3Add(a, b) == << a[1] + b[1], a[2] + b[2], a[3] + b[3] >>

\* NED positions a world description or a vehicle state may give
WorldPoints == {<< 0, 0, 0 >>, << 10, 0, 0 >>, << 0, 10, 0 >>, << 0, 0, 10 >>,
                << 1, 2, 3 >>}

\* An actor of the world description: its state topic, the state topic of its
\* primary flight display ("" for no flight_deck), the topic of its
\* trajectory_visualization ("" for none) and the state topics of its
\* effectors, in order
ActorWith(name, parent, position, topic, pfd_topic, trajectory_topic, effector_topics) ==
    [actor_name |-> name, parent |-> parent, position |-> position,
     topic |-> topic, pfd_topic |-> pfd_topic,
     trajectory_topic |-> trajectory_topic, effector_topics |-> effector_topics]

Actor(name, parent, position, topic) ==
    ActorWith(name, parent, position, topic, "", "", << >>)

\* The world descriptions load_world is given: the update interval, the origin
\* (latitude, longitude, altitude) and the actors (and sensors, which are
\* spawned the same way, "" for no state topic), in order
WorldConfigs ==
    << [update_interval_ms |-> 0, origin |-> << 0, 0, 0 >>,
        actors |-> << Actor("A", "", << 0, 0, 0 >>, "ta"),
                      Actor("B", "A", << 10, 0, 0 >>, "tb") >>],
       [update_interval_ms |-> 40, origin |-> << 35, 139, 10 >>,
        actors |-> << Actor("A", "", << 10, 0, 0 >>, "ta"),
                      Actor("B", "A", << 1, 2, 3 >>, ""),
                      Actor("C", "B", << 0, 10, 0 >>, "") >>],
       [update_interval_ms |-> 0, origin |-> << 0, 0, 0 >>,
        actors |-> << Actor("A", "zz", << 0, 0, 0 >>, "ta") >>],
       [update_interval_ms |-> 0, origin |-> << 0, 0, 0 >>,
        actors |-> << Actor("A", "A", << 0, 0, 0 >>, "ta") >>],
       [update_interval_ms |-> 0, origin |-> << 35, 139, 10 >>,
        actors |-> << Actor("A", "B", << 10, 0, 0 >>, "ta"),
                      Actor("B", "A", << 0, 10, 0 >>, "") >>],
       [update_interval_ms |-> 0, origin |-> << 0, 0, 0 >>,
        actors |-> << Actor("A", "", << 0, 0, 0 >>, ""),
                      Actor("B", "C", << 1, 2, 3 >>, "tb"),
                      Actor("C", "A", << 0, 0, 10 >>, "") >>] >>

\* A world description with every kind of topic: actor A has a state topic, a
\* primary flight display, a trajectory visualization and one effector,
\* actor B a state topic only
RouteConfig ==
    [update_interval_ms |-> 0, origin |-> << 0, 0, 0 >>,
     actors |-> << ActorWith("A", "", << 0, 0, 0 >>, "ta", "tp", "tt", << "te" >>),
                   Actor("B", "", << 10, 0, 0 >>, "tb") >>]

\* SceneGraph::new: no entity; has_global is whether an entity spawned with a
\* Transform has a GlobalTransform too (it does where the bevy_transform
\* release makes it a required component of Transform, and ActorBundle
\* names none)
NewWorld ==
    [entities |-> << >>, entity_map |-> << >>, entity_state_topic_map |-> << >>,
     entity_effector_state_topic_map |-> << >>,
     update_interval_ms |-> 0, last_update_time |-> 0, has_global |-> TRUE,
     origin_lla |-> << 0, 0, 0 >>, world_origin |-> << 0, 0, 0 >>]

NoSnapshot == [kind |-> "none", entities |-> << >>]
NoUpdate == [called |-> FALSE, sim_time |-> 0, emitted |-> FALSE]

\* add_entity: spawn the bundle and enter it in entity_map under its name;
\* parent_entity 0 is no Parent component, a new GlobalTransform is the identity
\* (the effectors, the flight deck and the trajectory visualization of the
\* actor follow in load_world: their components are inserted with default
\* data, "absent" where the actor has none, and their topics entered in
\* entity_effector_state_topic_map with the effector's index (counted from 1
\* here) and in entity_state_topic_map)
add_entity(w, a) ==
    LET e == [actor_name |-> a.actor_name, parent |-> a.parent,
              position |-> a.position,
              world_coord |-> from_ned(a.position, w.origin_lla),
              translation |-> ned_to_bevy_xyz(a.position),
              global_translation |-> << 0, 0, 0 >>, parent_entity |-> 0,
              effectors |-> [k \in DOMAIN a.effector_topics |-> "default"],
              pfd |-> IF a.pfd_topic = "" THEN "absent" ELSE "default",
              trajectory |-> IF a.trajectory_topic = "" THEN "absent"
                             ELSE "default"]
        id == Len(w.entities) + 1
        state_topics == {a.topic, a.pfd_topic, a.trajectory_topic} \ {""}
        effector_topics == {a.effector_topics[k] : k \in DOMAIN a.effector_topics}
    IN [w EXCEPT !.entities = Append(w.entities, e),
                 !.entity_map = [n \in DOMAIN w.entity_map \cup {a.actor_name} |->
                                    IF n = a.actor_name THEN id
                                    ELSE w.entity_map[n]],
                 !.entity_state_topic_map =
                     [t \in DOMAIN w.entity_state_topic_map \cup state_topics |->
                         IF t \in state_topics THEN a.actor_name
                         ELSE w.entity_state_topic_map[t]],
                 !.entity_effector_state_topic_map =
                     [t \in DOMAIN w.entity_effector_state_topic_map
                             \cup effector_topics |->
                         IF t \in effector_topics
                         THEN << a.actor_name,
                                 CHOOSE k \in DOMAIN a.effector_topics :
                                     /\ a.effector_topics[k] = t
                                     /\ \A j \in DOMAIN a.effector_topics :
                                           a.effector_topics[j] = t => j <= k >>
                         ELSE w.entity_effector_state_topic_map[t]]]

\* load_world, the loop over the actors
RECURSIVE SpawnLoop(_, _, _)
SpawnLoop(w, actors, i) ==
    IF i > Len(actors) THEN w
    ELSE SpawnLoop(add_entity(w, actors[i]), actors, i + 1)

\* add_child: Err when the parent or the child is not in entity_map; else the
\* AddChild command is applied, which panics when the two are one entity and
\* else makes the parent the child's Parent
add_child(w, parent_id, child_id) ==
    IF parent_id \notin DOMAIN w.entity_map \/ child_id \notin DOMAIN w.entity_map
    THEN [ok |-> FALSE, world |-> w]
    ELSE LET parent == w.entity_map[parent_id]
             child == w.entity_map[child_id]
         IN IF parent = child
            THEN [ok |-> FALSE, world |-> w]
            ELSE [ok |-> TRUE,
                  world |-> [w EXCEPT !.entities[child].parent_entity = parent]]

\* load_world, the loop over the (parent, actor_name) pairs of the entities
\* whose parent is not empty: the first add_child that fails ends it (expect)
RECURSIVE ParentLoop(_, _)
ParentLoop(w, i) ==
    IF i > Len(w.entities) THEN [ok |-> TRUE, world |-> w]
    ELSE IF w.entities[i].parent = "" THEN ParentLoop(w, i + 1)
    ELSE LET r == add_child(w, w.entities[i].parent, w.entities[i].actor_name)
         IN IF r.ok THEN ParentLoop(r.world, i + 1) ELSE r

\* load_world: the update interval is read, the origin goes into the
\* WorldOrigin resource (the SceneGraph's origin_lla is not assigned), the
\* entities are spawned and the parents set
load_world_entities(w, c) ==
    ParentLoop(SpawnLoop([w EXCEPT !.update_interval_ms = c.update_interval_ms,
                                   !.world_origin = c.origin],
                         c.actors, 1), 1)

\* sync_simple_transforms and propagate_transforms: an entity with no Parent
\* takes its Transform as its GlobalTransform, a child its parent's
\* GlobalTransform composed with its Transform; an entity with no root above
\* it is not visited (found: FALSE)
RECURSIVE GlobalOf(_, _, _)
GlobalOf(ents, i, fuel) ==
    IF ents[i].parent_entity = 0
    THEN [found |-> TRUE, t |-> ents[i].translation]
    ELSE IF fuel = 0 THEN [found |-> FALSE, t |-> << 0, 0, 0 >>]
    ELSE LET p == GlobalOf(ents, ents[i].parent_entity, fuel - 1)
         IN [found |-> p.found, t |-> Vec3Add(p.t, ents[i].translation)]

propagate_transforms(ents) ==
    [i \in 1..Len(ents) |->
        LET g == GlobalOf(ents, i, Len(ents))
        IN IF g.found THEN [ents[i] EXCEPT !.global_translation = g.t]
           ELSE ents[i]]

\* update_sim_coordinates: set_ned with the x, y, z of the GlobalTransform's
\* translation, for every entity that has a GlobalTransform
update_sim_coordinates(ents, has_global) ==
    [i \in 1..Len(ents) |->
        IF has_global
        THEN [ents[i] EXCEPT !.world_coord = set_ned(@, ents[i].global_translation)]
        ELSE ents[i]]

\* App::update: the Update systems, then PostUpdate
ecs_app_update(w) ==
    [w EXCEPT !.entities =
        update_sim_coordinates(propagate_transforms(w.entities), w.has_global)]

\* The payload types of SceneGraphStateData
PayloadTypes == {"VehicleState", "PrimaryFlightDisplayData",
                 "TrajectoryVisualization", "EffectorState", "JsonData"}

\* update_world, the body of the loop over latest_data_topic_map: a topic of
\* entity_state_topic_map is handled by the payload's type (the unwrap of a
\* component the entity does not have panics, ok: FALSE); else a topic of
\* entity_effector_state_topic_map has its payload parsed as an EffectorState,
\* which fails (expect) for the JSON of another type; else nothing.  The data
\* of a payload is its state for a VehicleState and "received" for the others
apply_payload(w, topic, e) ==
    IF topic \in DOMAIN w.entity_state_topic_map
    THEN LET entity_id == w.entity_state_topic_map[topic]
         IN IF entity_id \notin DOMAIN w.entity_map
            THEN [ok |-> TRUE, world |-> w]
            ELSE LET i == w.entity_map[entity_id]
                 IN CASE e.payload_type = "VehicleState" ->
                           [ok |-> TRUE,
                            world |-> [w EXCEPT
                                !.entities[i].position = e.state,
                                !.entities[i].world_coord = set_ned(@, e.state),
                                !.entities[i].translation = ned_to_bevy_xyz(e.state)]]
                      [] e.payload_type = "PrimaryFlightDisplayData" ->
                           IF w.entities[i].pfd = "absent"
                           THEN [ok |-> FALSE, world |-> w]
                           ELSE [ok |-> TRUE,
                                 world |-> [w EXCEPT !.entities[i].pfd = "received"]]
                      [] e.payload_type = "TrajectoryVisualization" ->
                           IF w.entities[i].trajectory = "absent"
                           THEN [ok |-> FALSE, world |-> w]
                           ELSE [ok |-> TRUE,
                                 world |-> [w EXCEPT
                                     !.entities[i].trajectory = "received"]]
                      [] OTHER -> [ok |-> TRUE, world |-> w]
    ELSE IF topic \in DOMAIN w.entity_effector_state_topic_map
    THEN LET entity_id == w.entity_effector_state_topic_map[topic][1]
             effector_idx == w.entity_effector_state_topic_map[topic][2]
         IN IF entity_id \notin DOMAIN w.entity_map
            THEN [ok |-> TRUE, world |-> w]
            ELSE IF e.payload_type # "EffectorState"
            THEN [ok |-> FALSE, world |-> w]
            ELSE [ok |-> TRUE,
                  world |-> [w EXCEPT
                      !.entities[w.entity_map[entity_id]].effectors[effector_idx] =
                          "received"]]
    ELSE [ok |-> TRUE, world |-> w]

\* The (topic, payload type) pairs of latest_data_topic_map
routed_payloads(data_queue) ==
    LET latest == LatestLoop(data_queue, 1, << >>)
    IN {<< t, latest[t].payload_type >> : t \in DOMAIN latest}

\* The topics a state may arrive on, in one of the orders the iteration over
\* latest_data_topic_map may take (the other is its reverse)
TopicOrder == << "ta", "tb", "tp", "tt", "te", "tx" >>

\* update_world, the loop over latest_data_topic_map, from the i-th topic of
\* the order on; the first panic ends it
RECURSIVE ApplyLoop(_, _, _, _)
ApplyLoop(w, latest, order, i) ==
    IF i > Len(order) THEN [ok |-> TRUE, world |-> w]
    ELSE IF order[i] \notin DOMAIN latest THEN ApplyLoop(w, latest, order, i + 1)
    ELSE LET r == apply_payload(w, order[i], latest[order[i]])
         IN IF r.ok THEN ApplyLoop(r.world, latest, order, i + 1) ELSE r

apply_latest(w, latest, rev) ==
    ApplyLoop(w, latest,
              IF rev THEN [k \in DOMAIN TopicOrder |->
                              TopicOrder[Len(TopicOrder) + 1 - k]]
              ELSE TopicOrder, 1)

\* generate_scene_graph_json: one key per entity (entity_<index>, the index
\* counted from 0), its actor_properties (the parent as the key of the entity
\* of that name, -1 for the empty string) and its actor_state
NameToId(ents, name) ==
    LET named == {i \in 1..Len(ents) : ents[i].actor_name = name}
    IN IF named = {} THEN -1
       ELSE (CHOOSE i \in named : \A j \in named : j <= i) - 1

\* generate_scene_graph_json listing only the entities with no Parent
generate_scene_graph_json_RootsOnly(w) ==
    LET full == [k \in 0..(Len(w.entities) - 1) |->
                    [actor_name |-> w.entities[k + 1].actor_name,
                     parent |-> NameToId(w.entities, w.entities[k + 1].parent),
                     ned |-> w.entities[k + 1].world_coord.ned.input,
                     position |-> w.entities[k + 1].position]]
    IN [k \in {j \in DOMAIN full : w.entities[j + 1].parent_entity = 0} |-> full[k]]

generate_scene_graph_json(w) ==
    [k \in 0..(Len(w.entities) - 1) |->
        [actor_name |-> w.entities[k + 1].actor_name,
         parent |-> NameToId(w.entities, w.entities[k + 1].parent),
         ned |-> w.entities[k + 1].world_coord.ned.input,
         position |-> w.entities[k + 1].position]]

\* update_world on the ECS world without the interval test
update_world_entities_Always(w, data_queue, t, rev) ==
    LET r == apply_latest(w, LatestLoop(data_queue, 1, << >>), rev)
        w2 == ecs_app_update(r.world)
    IN IF ~r.ok THEN [ok |-> FALSE, emitted |-> FALSE, world |-> w]
       ELSE [ok |-> TRUE, emitted |-> TRUE,
             world |-> [w2 EXCEPT !.last_update_time = to_millis(t)]]

\* update_world on the ECS world: None while less than update_interval has
\* passed, else the states are applied, the systems run and the update is
\* generated; rev is the order of the iteration over the latest entries, and
\* ok: FALSE a panic on the way
update_world_entities(w, data_queue, t, rev) ==
    IF to_millis(t) - w.last_update_time < w.update_interval_ms
    THEN [ok |-> TRUE, emitted |-> FALSE, world |-> w]
    ELSE LET r == apply_latest(w, LatestLoop(data_queue, 1, << >>), rev)
             w2 == ecs_app_update(r.world)
         IN IF ~r.ok THEN [ok |-> FALSE, emitted |-> FALSE, world |-> w]
            ELSE [ok |-> TRUE, emitted |-> TRUE,
                  world |-> [w2 EXCEPT !.last_update_time = to_millis(t)]]

-----------------------------------------------------------------------------
(* logging: warn_rate_limited.  An Instant is a whole number of ticks of the
   monotonic clock, a Duration a number of the same ticks. *)

WarnKeys == {"k1", "k2"}
MinIntervals == {1, 2}
MaxInstant == 3
MaxWarnCalls == 5

NoWarnCall == [n |-> 0, key |-> "", now |-> 0, min_interval |-> 0, logged |-> FALSE]

\* warn_rate_limited with a suppressed call taking now as its last_time
warn_rate_limited_Postponing(timestamps, key, now, min_interval) ==
    LET r == IF key \in DOMAIN timestamps
             THEN IF now - timestamps[key].last_time >= min_interval
                  THEN [should_log |-> TRUE, count |-> 0, last_time |-> now]
                  ELSE [should_log |-> FALSE, count |-> timestamps[key].count + 1,
                        last_time |-> now]
             ELSE [should_log |-> TRUE, count |-> 0, last_time |-> now]
    IN [should_log |-> r.should_log,
        timestamps |-> [k \in DOMAIN timestamps \cup {key} |->
                           IF k = key
                           THEN [last_time |-> r.last_time, count |-> r.count]
                           ELSE timestamps[k]]]

\* warn_rate_limited, with the lock taken: the key's entry decides should_log
\* and is replaced by (last_time, suppressed_count)
warn_rate_limited(timestamps, key, now, min_interval) ==
    LET r == IF key \in DOMAIN timestamps
             THEN IF now - timestamps[key].last_time >= min_interval
                  THEN [should_log |-> TRUE, count |-> 0, last_time |-> now]
                  ELSE [should_log |-> FALSE, count |-> timestamps[key].count + 1,
                        last_time |-> timestamps[key].last_time]
             ELSE [should_log |-> TRUE, count |-> 0, last_time |-> now]
    IN [should_log |-> r.should_log,
        timestamps |-> [k \in DOMAIN timestamps \cup {key} |->
                           IF k = key
                           THEN [last_time |-> r.last_time, count |-> r.count]
                           ELSE timestamps[k]]]

-----------------------------------------------------------------------------
(* The type registry and the middleware registry: a map from name to the
   entry registered, behind a lock *)

RegNames == {"n1", "n2"}
RegEntries == {"e1", "e2"}

NoRegCall == [op |-> "none", name |-> "", entry |-> "", ret |-> ""]

\* TypeRegistry::register and MiddlewareRegistry::register:
\* HashMap::insert(name, entry) puts the entry in, and the result is Err when
\* insert returned an old entry (Some), Ok when it returned None
register(map, name, entry) ==
    [ok |-> name \notin DOMAIN map,
     map |-> [n \in DOMAIN map \cup {name} |->
                 IF n = name THEN entry ELSE map[n]]]

\* TypeRegistry::get and MiddlewareRegistry::get ("": None)
get(map, name) == IF name \in DOMAIN map THEN map[name] ELSE ""

-----------------------------------------------------------------------------
(* The callback and the main loop on one topic that is a sync topic at the
   step rate and a scene-graph topic, with the messages numbered *)

MaxOrderMsgs == 3
MaxOrderTicks == 3

\* Before start(): no main loop, no message taken; cb is the number of the
\* message the callback is at between its push and its send (0 for none),
\* released_by the message whose notification emptied the sync set of the
\* last barrier, drained what the last std::mem::take of the queue returned
NoOrder ==
    [pc |-> "none", tick |-> 0, sync_topics_set |-> {}, cb |-> 0, next |-> 1,
     scene_graph_data_queue |-> << >>, rx_msg |-> << >>, with_state |-> {},
     released_by |-> 0, drained |-> {}]

-----------------------------------------------------------------------------
(* One Orchestrator and the main-loop threads it spawns, under any sequence
   of load(), start() and stop() *)

MaxThreads == 3

\* Orchestrator::new: nothing loaded, no stop sender, no thread handle.
\* loaded: simclock, data_manager, middleware and runtime are Some (load sets
\* and start takes the four together); a thread is the number of the start()
\* that spawned it; stop_sent are the threads whose rx_stop holds a flag,
\* disconnected those whose stop sender was dropped; joining is the thread
\* stop() waits for in handle.join() (0 for none)
NewOrchestrator ==
    [loaded |-> FALSE, orchestrator_thread_tx_stop |-> 0,
     orchestrator_thread_handle |-> 0, spawned |-> 0, alive |-> {},
     stop_sent |-> {}, disconnected |-> {}, joining |-> 0]

-----------------------------------------------------------------------------
(* The wait loops of load() and orchestrator_main, as far as their clock
   reads: start_time.elapsed() is read in whole seconds (as_secs) *)

\* retry_num % 50 == 0 in the scene-graph handshake
SgRetryEvery == 50
\* notify_at_sec and its step in the initial barrier
NotifyEvery == 5
\* Sleeps of Duration::from_millis(100) that fit in a second
SleepsPerSec == 10

\* Whole seconds the elapsed time may have grown by over the one-second
\* sleep of load() (with the publish that may precede it), over the 100 ms
\* sleep of the scene-graph handshake, and from one turn of the initial
\* barrier to the next
SleepSecs == {1, 2}
ShortSleepSecs == {0, 1, 2}
TurnSecs == {0, 1}

NoRemaining == [computed |-> FALSE, underflow |-> FALSE, secs |-> 0]
NoWait == [loop |-> "none", pc |-> "idle", elapsed |-> 0, count |-> 0,
           remaining |-> NoRemaining]

\* timeout.as_secs() - start_time.elapsed().as_secs() on u64: the difference,
\* or an underflow (a panic where overflow checks are on, else the wrapped
\* value) when the elapsed seconds exceed the timeout's
RemainingSecs(timeout, elapsed) ==
    IF elapsed <= timeout
    THEN [computed |-> TRUE, underflow |-> FALSE, secs |-> timeout - elapsed]
    ELSE [computed |-> TRUE, underflow |-> TRUE, secs |-> elapsed - timeout]

-----------------------------------------------------------------------------
(* State *)

VARIABLES
    orch,               \* the Orchestrator's fields (0 = None, n = the n-th load's object)
    caller_pc,          \* where the calling thread is: idle, load_wait, stop_join
    load_result,        \* result of the last load(): none, ok, timeout
    n_loads, n_starts,  \* calls made so far
    pre_load,           \* the fields as they were when the last load() was entered
    load_req,           \* load(): required_renderers
    load_elapsed,       \* load(): start_time.elapsed() in whole seconds
    retry_num,          \* load(): retry_num
    simclock,           \* the SimClock object: step_size and sim_time
    data_manager,       \* the DataManager object: enabled, is_open, writer finished
    main_pc,            \* where the main thread is (none: never spawned)
    running,            \* orchestrator_main: running
    main_config,        \* orchestrator_main: sim_config (the clone start() hands over)
    sim_time,           \* orchestrator_main: sim_time
    sync_topic_data,    \* the (topic, interval) vector handed to the main thread
    sync_topics_set,    \* orchestrator_main: sync_topics_set of the current barrier
    required_renderers, \* orchestrator_main: required_renderers
    main_elapsed,       \* orchestrator_main: start_time.elapsed() in whole seconds
    subscribed,         \* topics the raw callback is subscribed to
    rx_msg,             \* the (timestamp, topic) channel: topics pending
    rx_stop,            \* the stop channel: flags pending
    bus_out,            \* what the orchestrator published, in order
    fresh,              \* topics delivered to the callback since the last clock publish
    delivered,          \* topics delivered to the callback since start()
    received,           \* number of messages the callback took since start(), where the
                        \* specification counts them (SpecGated)
    sg_acked,           \* renderers whose scene_graph_loaded reached the main thread's callback
    cfg_acked,          \* declared renderers whose config_loaded reached load()'s callback
    run_base,           \* length of bus_out when the last start() spawned the thread
    ticks_at_stop,      \* clock ticks of the run published when stop() sent its flag (-1: not sent)
    scene_graph_data_queue, \* the queue of (timestamp, topic, state) the callback fills
    scene_graph,        \* the SceneGraph: update_interval, last_update_time, state applied per topic
    since_update,       \* the entries enqueued that no scene graph published so far could show:
                        \* those pending at load_scene_graph or at the last update, and those enqueued since
    sim_start_time,     \* SimClock: sim_start_time
    real_to_sim_time,   \* SimClock: the vector of (wall time, sim time) pairs
    clock_ret,          \* the last call made on the SimClock and what it returned
    transport_pc,       \* DataManager: where each transport thread is in process_data_message
    channels,           \* DataManager: channels, topic -> the channel made for it
    schemas,            \* DataManager: schemas, type name -> the schema made for it (or None)
    transport_channel,  \* process_data_message: the channel each transport thread holds
    stop_pc,            \* DataManager: where the thread calling stop() is
    writer,             \* DataManager: the log writer: created, write() calls, those after finish()
    world_pc,           \* the SceneGraph's ECS world: new, loaded, or panicked in load_world
    world_config,       \* the world description load_world was given (0: none yet)
    ecs_world,          \* SceneGraph: the entities of ecs_app, entity_map, entity_state_topic_map,
                        \* update_interval and last_update_time
    snapshot,           \* the value generate_scene_graph_json returned last (kind none: none yet)
    update_ret,         \* the last update_world call on ecs_world: its sim time, whether it returned Some
    routed,             \* the (topic, payload type) pairs the last update_world call kept
    world_coord,        \* a WorldCoordinate object: ned, lla, ecef, cartesian
    coord_call,         \* the last mutator called on world_coord and its input
    warning_timestamps, \* logging: WARNING_TIMESTAMPS, key -> (last_time, suppressed count)
    last_logged,        \* for each key, the Instant its warning was last logged at (-1: never)
    warn_call,          \* the last warn_rate_limited call: key, now, min_interval, whether it logged
    types,              \* TypeRegistry: types, type name -> the TypeSupport registered
    middlewares,        \* MiddlewareRegistry: middlewares, name -> the middleware registered
    reg_call,           \* the last register or get call on a registry and what it returned
    wait,               \* a wait loop followed read by read: which loop, where it is, the
                        \* elapsed whole seconds last read, retry_num or notify_at_sec, and the
                        \* remaining seconds last computed for the log
    ord,                \* one topic that is a sync topic and a scene-graph topic, message
                        \* by message: the callback's position, scene_graph_data_queue and
                        \* rx_msg as sequences of message numbers, the main loop's position
    thr                 \* one Orchestrator under any calls: whether its sim clock, data
                        \* manager, middleware and runtime are Some, its stop sender and
                        \* thread handle, and the main-loop threads spawned and still alive

vars == << orch, caller_pc, load_result, n_loads, n_starts, pre_load,
           load_req, load_elapsed, retry_num, simclock, data_manager, main_pc,
           running, sim_time, sync_topic_data, sync_topics_set,
           required_renderers, main_elapsed, subscribed, rx_msg, rx_stop,
           bus_out, fresh, delivered, received, ticks_at_stop, main_config,
           sg_acked, cfg_acked, run_base, scene_graph_data_queue, scene_graph, since_update,
           sim_start_time, real_to_sim_time, clock_ret, transport_pc, channels,
           schemas, transport_channel, stop_pc, writer, world_pc, world_config,
           ecs_world, snapshot, update_ret, routed, world_coord, coord_call,
           warning_timestamps, last_logged, warn_call, types, middlewares,
           reg_call, wait, ord, thr >>

caller_vars == << orch, caller_pc, load_result, n_loads, n_starts,
                  pre_load, load_req, load_elapsed, retry_num >>
main_vars == << main_pc, running, main_config, sim_time, sync_topic_data,
                sync_topics_set, required_renderers, main_elapsed >>
ghost_vars == << fresh, delivered, received, sg_acked, cfg_acked, run_base,
                ticks_at_stop >>
scene_vars == << scene_graph_data_queue, scene_graph, since_update >>
clock_vars == << sim_start_time, real_to_sim_time, clock_ret >>
recorder_vars == << transport_pc, channels, schemas, transport_channel, stop_pc,
                   writer >>
world_vars == << world_pc, world_config, ecs_world, snapshot, update_ret, routed >>
coord_vars == << world_coord, coord_call >>
warn_vars == << warning_timestamps, last_logged, warn_call >>
registry_vars == << types, middlewares, reg_call >>
wait_vars == << wait >>
order_vars == << ord >>
thread_vars == << thr >>
lib_vars == << warn_vars, registry_vars, wait_vars, order_vars, thread_vars >>

CommandsTopic == "aerosim.orchestrator.commands"
ClockTopic == "aerosim.clock"

Command(name, stamp) == [topic |-> CommandsTopic, command |-> name, stamp |-> stamp]
ClockMsg(t) == [topic |-> ClockTopic, command |-> "tick", stamp |-> t]
SceneUpdateTopic == "aerosim.scene_graph.update"
\* The scene-graph update: state is the state of each topic's entity
SceneUpdateMsg(t, applied) ==
    [topic |-> SceneUpdateTopic, command |-> "update", stamp |-> t, state |-> applied]

\* middleware.publish: the message goes out on the bus
Publish(msg) == bus_out' = Append(bus_out, msg)

\* The retry of load(): the same load_config goes out again.  bus_out keeps
\* one entry for a run of re-publications of one load() call.
PublishAgain(msg) ==
    bus_out' = IF Len(bus_out) > 0 /\ bus_out[Len(bus_out)] = msg
               THEN bus_out ELSE Append(bus_out, msg)

MainAlive == main_pc \notin {"none", "done"}
\* What the main thread of the last start() has published so far
RunMsgs ==
    SelectSeq(SubSeq(bus_out, run_base + 1, Len(bus_out)),
              LAMBDA m : m.command # "load_config")
\* The clock ticks among them
NumTicks == Len(SelectSeq(RunMsgs, LAMBDA m : m.topic = ClockTopic))

\* No call made on the SimClock yet
NoCall == [op |-> "none", arg |-> TimeStampNew(0, 0), val |-> TimeStampNew(0, 0),
           sim |-> TimeStampNew(0, 0)]
\* The transport threads that run the callback
Transports == {1, 2}
\* The messages (metadata.topic, metadata.type_name) that reach the
\* DataManager: two topics of one type, a topic seen with two types, and a
\* topic of a type the TypeRegistry has no schema for
RecordedMessages ==
    {[topic |-> "a", type_name |-> "T1"], [topic |-> "b", type_name |-> "T1"],
     [topic |-> "b", type_name |-> "T2"], [topic |-> "c", type_name |-> "Tn"]}
\* The type names TypeRegistry::get(..).schema_as_bytes() has a schema for
TypesWithSchema == {"T1", "T2"}
\* `as u16` of a length
U16Mod == 65536
AsU16(n) == n % U16Mod
\* An empty HashMap
EmptyMap == [k \in {} |-> k]
\* Option<Arc<Schema>>: None
NoSchema == [some |-> FALSE, id |-> 0]
\* No channel held
NoChannel == [topic |-> "", id |-> 0, schema |-> NoSchema]
\* The log writer before load(): None.  written: the write() calls made on
\* it; late: those made after a finish()
NewWriter == [created |-> FALSE, written |-> 0, late |-> 0, log |-> << >>]

NoOrch == [sim_config |-> NullConfig, orchestrator_thread_handle |-> 0,
           orchestrator_thread_tx_stop |-> 0, simclock |-> 0, data_manager |-> 0,
           middleware |-> 0, runtime |-> 0]

\* Orchestrator::__new__; SimClock and DataManager do not exist yet
Init ==
    /\ orch = NoOrch
    /\ caller_pc = "idle"
    /\ load_result = "none"
    /\ n_loads = 0
    /\ n_starts = 0
    /\ pre_load = NoOrch
    /\ load_req = {}
    /\ load_elapsed = 0
    /\ retry_num = 0
    /\ simclock = [step_size_ms |-> 0, sim_time |-> TimeStampNew(0, 0)]
    /\ data_manager = [enabled |-> FALSE, is_open |-> FALSE, finished |-> 0]
    /\ main_pc = "none"
    /\ running = FALSE
    /\ sim_time = TimeStampNew(0, 0)
    /\ sync_topic_data = << >>
    /\ sync_topics_set = {}
    /\ required_renderers = {}
    /\ main_elapsed = 0
    /\ subscribed = {}
    /\ rx_msg = << >>
    /\ rx_stop = << >>
    /\ bus_out = << >>
    /\ fresh = {}
    /\ delivered = {}
    /\ received = 0
    /\ ticks_at_stop = -1
    /\ main_config = NullConfig
    /\ sg_acked = {}
    /\ cfg_acked = {}
    /\ run_base = 0
    /\ scene_graph_data_queue = << >>
    /\ scene_graph = NewSceneGraph
    /\ since_update = << >>
    /\ sim_start_time = TimeStampNew(0, 0)
    /\ real_to_sim_time = << >>
    /\ clock_ret = NoCall
    /\ transport_pc = [th \in Transports |-> "idle"]
    /\ channels = EmptyMap
    /\ schemas = EmptyMap
    /\ transport_channel = [th \in Transports |-> NoChannel]
    /\ stop_pc = "idle"
    /\ writer = NewWriter
    /\ world_pc = "new"
    /\ world_config = 0
    /\ ecs_world = NewWorld
    /\ snapshot = NoSnapshot
    /\ update_ret = NoUpdate
    /\ routed = {}
    /\ world_coord = WorldCoordinateNew
    /\ coord_call = NoCoordCall
    /\ warning_timestamps = EmptyMap
    /\ last_logged = [k \in WarnKeys |-> -1]
    /\ warn_call = NoWarnCall
    /\ types = EmptyMap
    /\ middlewares = EmptyMap
    /\ reg_call = NoRegCall
    /\ wait = NoWait
    /\ ord = NoOrder
    /\ thr = NewOrchestrator

-----------------------------------------------------------------------------
(* The calling thread: load(), start(), stop() *)

LoadConfigCmd == Command("load_config", TimeStampNew(0, 0))

\* load(), up to the first publish of load_config: the config is stored, the
\* sim clock, runtime, data manager and middleware are created, the status
\* topic is subscribed and load_config is published.
Load(c) ==
    /\ caller_pc = "idle"
    /\ ~MainAlive
    /\ n_loads < MaxLoads
    /\ n_loads' = n_loads + 1
    /\ pre_load' = orch
    /\ orch' = [orch EXCEPT !.sim_config = c, !.simclock = n_loads + 1,
                            !.runtime = n_loads + 1, !.data_manager = n_loads + 1,
                            !.middleware = n_loads + 1]
    /\ simclock' = [step_size_ms |-> Cfg(c).step_size_ms,
                    sim_time |-> TimeStampNew(0, 0)]
    /\ data_manager' = [enabled |-> Cfg(c).record, is_open |-> Cfg(c).record,
                        finished |-> 0]
    /\ load_req' = Cfg(c).renderers
    /\ Publish(LoadConfigCmd)
    /\ load_elapsed' = 0
    /\ retry_num' = 0
    /\ load_result' = "none"
    /\ caller_pc' = "load_wait"
    /\ cfg_acked' = {}
    /\ UNCHANGED << scene_vars, clock_vars, recorder_vars, world_vars, coord_vars, lib_vars, n_starts, main_vars, subscribed, rx_msg, rx_stop,
                    fresh, delivered, received, sg_acked, run_base, ticks_at_stop >>

\* load() returning Ok without looking at required_renderers
LoadReady_WithoutAcks ==
    /\ caller_pc = "load_wait"
    /\ load_elapsed < TimeoutRenderersReady
    /\ load_result' = "ok"
    /\ caller_pc' = "idle"
    /\ load_elapsed' = 0
    /\ retry_num' = 0
    /\ UNCHANGED << scene_vars, clock_vars, recorder_vars, world_vars, coord_vars, lib_vars, orch, n_loads, n_starts, pre_load, load_req,
                    simclock, data_manager, main_vars, subscribed, rx_msg,
                    rx_stop, bus_out, ghost_vars >>

\* load(): the wait loop finds required_renderers empty and load() returns Ok
LoadReady ==
    /\ caller_pc = "load_wait"
    /\ load_elapsed < TimeoutRenderersReady
    /\ load_req = {}
    /\ load_result' = "ok"
    /\ caller_pc' = "idle"
    /\ load_elapsed' = 0
    /\ retry_num' = 0
    /\ UNCHANGED << scene_vars, clock_vars, recorder_vars, world_vars, coord_vars, lib_vars, orch, n_loads, n_starts, pre_load, load_req,
                    simclock, data_manager, main_vars, subscribed, rx_msg,
                    rx_stop, bus_out, ghost_vars >>

\* load(): one turn of the wait loop: sleep a second (or longer), count the
\* retry and publish load_config again on every fifth
LoadSleep ==
    /\ caller_pc = "load_wait"
    /\ load_elapsed < TimeoutRenderersReady
    /\ load_req # {}
    /\ \E e \in ElapsedAfterSleep(load_elapsed) : load_elapsed' = e
    /\ retry_num' = retry_num + 1
    /\ IF (retry_num + 1) % RetryEvery = 0
       THEN PublishAgain(LoadConfigCmd)
       ELSE UNCHANGED bus_out
    /\ UNCHANGED << scene_vars, clock_vars, recorder_vars, world_vars, coord_vars, lib_vars, orch, caller_pc, load_result, n_loads, n_starts,
                    pre_load, load_req, simclock, data_manager, main_vars,
                    subscribed, rx_msg, rx_stop, ghost_vars >>

\* load(): the deadline has passed with a renderer missing and load() returns
\* the timeout error
LoadTimeout ==
    /\ caller_pc = "load_wait"
    /\ load_elapsed >= TimeoutRenderersReady
    /\ load_result' = "timeout"
    /\ caller_pc' = "idle"
    /\ load_elapsed' = 0
    /\ retry_num' = 0
    /\ load_req' = {}
    /\ UNCHANGED << scene_vars, clock_vars, recorder_vars, world_vars, coord_vars, lib_vars, orch, n_loads, n_starts, pre_load, simclock,
                    data_manager, main_vars, subscribed, rx_msg, rx_stop,
                    bus_out, ghost_vars >>

\* start() with the sim clock (or data manager, middleware, runtime) None:
\* the first take().expect() panics before anything is changed
StartPanic ==
    /\ caller_pc = "idle"
    /\ orch.simclock = 0
    /\ UNCHANGED vars

\* start(): the fields are taken, the channels are created, sync_topic_data is
\* built, the raw callback is subscribed (ok) or the subscription fails and the
\* callback with its sender is dropped, and the main thread is spawned.
Start(ok) ==
    /\ caller_pc = "idle"
    /\ orch.simclock # 0
    /\ n_starts < MaxStarts
    /\ n_starts' = n_starts + 1
    /\ orch' = [orch EXCEPT !.simclock = 0, !.data_manager = 0, !.middleware = 0,
                            !.runtime = 0,
                            !.orchestrator_thread_tx_stop = n_starts + 1,
                            !.orchestrator_thread_handle = n_starts + 1]
    /\ sync_topic_data' = BuildSyncTopicData(orch.sim_config)
    /\ subscribed' = IF ok THEN Cfg(orch.sim_config).topics ELSE {}
    /\ rx_msg' = << >>
    /\ rx_stop' = << >>
    /\ main_pc' = "begin"
    /\ running' = TRUE
    /\ main_config' = orch.sim_config
    /\ sim_time' = TimeStampNew(0, 0)
    /\ sync_topics_set' = {}
    /\ required_renderers' = {}
    /\ main_elapsed' = 0
    /\ fresh' = {}
    /\ delivered' = {}
    /\ received' = 0
    /\ sg_acked' = {}
    /\ run_base' = Len(bus_out)
    /\ ticks_at_stop' = -1
    /\ UNCHANGED << scene_vars, clock_vars, recorder_vars, world_vars, coord_vars, lib_vars, caller_pc, load_result, n_loads, pre_load, load_req,
                    load_elapsed, retry_num, simclock, data_manager, bus_out,
                    cfg_acked >>

\* stop() with no stop sender: returns at once
StopNothing ==
    /\ caller_pc = "idle"
    /\ orch.orchestrator_thread_tx_stop = 0
    /\ UNCHANGED vars

\* stop(): the sender is taken, true is sent (to a receiver that may be gone)
\* and the sender is dropped; stop() goes on to join the thread
Stop ==
    /\ caller_pc = "idle"
    /\ orch.orchestrator_thread_tx_stop # 0
    /\ orch' = [orch EXCEPT !.orchestrator_thread_tx_stop = 0]
    /\ rx_stop' = IF MainAlive THEN Append(rx_stop, TRUE) ELSE rx_stop
    /\ ticks_at_stop' = NumTicks
    /\ caller_pc' = "stop_join"
    /\ UNCHANGED << scene_vars, clock_vars, recorder_vars, world_vars, coord_vars, lib_vars, load_result, n_loads, n_starts, pre_load, load_req,
                    load_elapsed, retry_num, simclock, data_manager, main_vars,
                    subscribed, rx_msg, bus_out, fresh, delivered, received,
                    sg_acked, cfg_acked, run_base >>

\* stop(): handle.join() returns once the main thread has ended
StopJoin ==
    /\ caller_pc = "stop_join"
    /\ main_pc = "done"
    /\ orch' = [orch EXCEPT !.orchestrator_thread_handle = 0]
    /\ caller_pc' = "idle"
    /\ UNCHANGED << scene_vars, clock_vars, recorder_vars, world_vars, coord_vars, lib_vars, load_result, n_loads, n_starts, pre_load, load_req,
                    load_elapsed, retry_num, simclock, data_manager, main_vars,
                    subscribed, rx_msg, rx_stop, bus_out, ghost_vars >>

-----------------------------------------------------------------------------
(* The bus: renderer status messages and messages on subscribed topics *)

\* A message {renderer_id: r, status: st} on aerosim.renderer.status reaches
\* the status callbacks: load()'s removes r on config_loaded, the main
\* thread's removes r on scene_graph_loaded.
RendererStatus(r, st) ==
    /\ caller_pc = "load_wait" \/ main_pc \in {"sg_wait"}
    /\ load_req' = IF caller_pc = "load_wait" /\ st = "config_loaded"
                   THEN load_req \ {r} ELSE load_req
    /\ required_renderers' =
           IF main_pc = "sg_wait" /\ st = "scene_graph_loaded"
           THEN required_renderers \ {r} ELSE required_renderers
    /\ sg_acked' = IF main_pc = "sg_wait" /\ st = "scene_graph_loaded"
                   THEN sg_acked \cup {r} ELSE sg_acked
    /\ cfg_acked' = IF caller_pc = "load_wait" /\ st = "config_loaded"
                    THEN cfg_acked \cup ({r} \cap Cfg(orch.sim_config).renderers)
                    ELSE cfg_acked
    /\ UNCHANGED << scene_vars, clock_vars, recorder_vars, world_vars, coord_vars, lib_vars, orch, caller_pc, load_result, n_loads, n_starts,
                    pre_load, load_elapsed, retry_num, simclock, data_manager,
                    main_pc, running, main_config, sim_time, sync_topic_data, sync_topics_set,
                    main_elapsed, subscribed, rx_msg, rx_stop, bus_out, fresh,
                    delivered, received, run_base, ticks_at_stop >>

\* The callback sending its notification twice for one message
Callback_NotifiesTwice(t, m) ==
    /\ t \in subscribed
    /\ MainAlive
    /\ m.meta_ok
    /\ Len(rx_msg) < MaxChan
    /\ received < MaxReceived
    /\ rx_msg' = Append(Append(rx_msg, t), t)
    /\ fresh' = fresh \cup {t}
    /\ delivered' = delivered \cup {t}
    /\ UNCHANGED << scene_vars, clock_vars, recorder_vars, world_vars, coord_vars, lib_vars, caller_vars, simclock,
                    data_manager, main_vars, subscribed, rx_stop, bus_out,
                    sg_acked, cfg_acked, run_base, ticks_at_stop >>

\* The raw callback of start() for a message m on topic t.  If the metadata
\* does not deserialize the callback returns an error.  Else the message is
\* handed to the data manager (what the recorder does with it is followed in
\* the recorder's specification); on an actor state topic its state, if it
\* deserializes, is put in the scene-graph queue; and (timestamp, topic) is
\* sent to the main thread.  (received, the count of the messages taken, is
\* set by the specification.)
Callback(t, m) ==
    /\ t \in subscribed
    /\ MainAlive
    /\ IF ~m.meta_ok
       THEN UNCHANGED << scene_vars, rx_msg, fresh, delivered >>
       ELSE /\ Len(rx_msg) < MaxChan
            /\ received < MaxReceived
            /\ IF t \in Cfg(main_config).sg_topics /\ m.state_ok
               THEN /\ Len(scene_graph_data_queue) < MaxQueue
                    /\ scene_graph_data_queue' =
                           Append(scene_graph_data_queue,
                                  [timestamp |-> m.timestamp, topic |-> t,
                                   state |-> m.state])
                    /\ since_update' =
                           Append(since_update,
                                  [timestamp |-> m.timestamp, topic |-> t,
                                   state |-> m.state])
                    /\ UNCHANGED scene_graph
               ELSE UNCHANGED scene_vars
            /\ rx_msg' = Append(rx_msg, t)
            /\ fresh' = fresh \cup {t}
            /\ delivered' = delivered \cup {t}
    /\ UNCHANGED << clock_vars, recorder_vars, world_vars, coord_vars, lib_vars, caller_vars, simclock,
                    data_manager, main_vars, subscribed, rx_stop, bus_out,
                    sg_acked, cfg_acked, run_base, ticks_at_stop >>

-----------------------------------------------------------------------------
(* The main thread: orchestrator_main *)

MsgTxAlive == subscribed # {}
StopTxAlive == orch.orchestrator_thread_tx_stop # 0

\* What one call of poll_messages yields in the current state
Poll == poll_messages(sync_topics_set, rx_msg, MsgTxAlive, rx_stop, StopTxAlive)

\* The set of required renderers is built, the scene graph is created, the
\* status topic is subscribed, the world is loaded and load_scene_graph is
\* published.
MainLoadSceneGraph ==
    /\ main_pc = "begin"
    /\ sim_time' = simclock.sim_time
    /\ required_renderers' = Cfg(main_config).renderers
    /\ Publish(Command("load_scene_graph", TimeStampNew(0, 0)))
    /\ main_elapsed' = 0
    /\ main_pc' = "sg_wait"
    /\ scene_graph' = load_world(main_config)
    /\ since_update' = scene_graph_data_queue
    /\ UNCHANGED << scene_graph_data_queue, clock_vars,
                    recorder_vars, world_vars, coord_vars, lib_vars, caller_vars, main_config, simclock, data_manager, running,
                    sync_topic_data, sync_topics_set, subscribed, rx_msg, rx_stop,
                    ghost_vars >>

\* Scene-graph handshake: every required renderer has acknowledged
MainSgReady ==
    /\ main_pc = "sg_wait"
    /\ main_elapsed < TimeoutRenderersReady
    /\ required_renderers = {}
    /\ main_pc' = "start_cmd"
    /\ main_elapsed' = 0
    /\ UNCHANGED << scene_vars, clock_vars, recorder_vars, world_vars, coord_vars, lib_vars, caller_vars, main_config, simclock, data_manager, running, sim_time,
                    sync_topic_data, sync_topics_set, required_renderers,
                    subscribed, rx_msg, rx_stop, bus_out, ghost_vars >>

\* Scene-graph handshake: turns of the wait loop, each a sleep of 100 ms, until
\* the elapsed time reads another second (the count of turns is used for a log
\* line only)
MainSgSleep ==
    /\ main_pc = "sg_wait"
    /\ main_elapsed < TimeoutRenderersReady
    /\ required_renderers # {}
    /\ \E e \in ElapsedAfterSleep(main_elapsed) : main_elapsed' = e
    /\ UNCHANGED << scene_vars, clock_vars, recorder_vars, world_vars, coord_vars, lib_vars, caller_vars, main_config, simclock, data_manager, main_pc, running,
                    sim_time, sync_topic_data, sync_topics_set, required_renderers,
                    subscribed, rx_msg, rx_stop, bus_out, ghost_vars >>

\* The handshake deadline passing without running being cleared
MainSgTimeout_KeepsRunning ==
    /\ main_pc = "sg_wait"
    /\ main_elapsed >= TimeoutRenderersReady
    /\ main_pc' = "start_cmd"
    /\ main_elapsed' = 0
    /\ UNCHANGED << scene_vars, clock_vars, recorder_vars, world_vars, coord_vars, lib_vars, caller_vars, main_config, simclock, data_manager, running,
                    sim_time, sync_topic_data, sync_topics_set, required_renderers,
                    subscribed, rx_msg, rx_stop, bus_out, ghost_vars >>

\* Scene-graph handshake: the deadline has passed, running becomes false
MainSgTimeout ==
    /\ main_pc = "sg_wait"
    /\ main_elapsed >= TimeoutRenderersReady
    /\ running' = FALSE
    /\ main_pc' = "start_cmd"
    /\ main_elapsed' = 0
    /\ UNCHANGED << scene_vars, clock_vars, recorder_vars, world_vars, coord_vars, lib_vars, caller_vars, main_config, simclock, data_manager, sim_time,
                    sync_topic_data, sync_topics_set, required_renderers,
                    subscribed, rx_msg, rx_stop, bus_out, ghost_vars >>

\* If still running: the sim clock is started and the start command is
\* published.  Then the sync set of the initial barrier is computed.
MainStartCmd ==
    /\ main_pc = "start_cmd"
    /\ IF running THEN Publish(Command("start", TimeStampNew(0, 0)))
       ELSE UNCHANGED bus_out
    /\ sync_topics_set' = get_sync_topics_for_simtime(sync_topic_data, sim_time)
    /\ main_elapsed' = 0
    /\ main_pc' = "init_barrier"
    /\ UNCHANGED << scene_vars, clock_vars, recorder_vars, world_vars, coord_vars, lib_vars, caller_vars, main_config, simclock, data_manager, running, sim_time,
                    sync_topic_data, required_renderers, subscribed, rx_msg,
                    rx_stop, ghost_vars >>

\* The value of running after one turn of an initial barrier with no deadline
InitialBarrierRunning_NoDeadline(keep_running, e, late, stops, stop_tx_alive) ==
    LET s == TryRecv(stops, stop_tx_alive)
    IN /\ keep_running
       /\ ~(s = "ok" /\ Head(stops))
       /\ s # "disconnected"

\* The value of running after the deadline check and the try_recv on the stop
\* channel that end one turn of the initial barrier: e is the elapsed time read
\* (whole seconds), late tells whether a part of a second lies beyond it
InitialBarrierRunning(keep_running, e, late, stops, stop_tx_alive) ==
    LET timed_out == e > TimeoutInitialSyncTopics
                     \/ (e = TimeoutInitialSyncTopics /\ late)
        s == TryRecv(stops, stop_tx_alive)
    IN /\ keep_running
       /\ ~timed_out
       /\ ~(s = "ok" /\ Head(stops))
       /\ s # "disconnected"

\* Initial barrier: the loop is left because running is false
MainInitialBarrierExit ==
    /\ main_pc = "init_barrier"
    /\ ~running
    /\ main_pc' = "loop_head"
    /\ main_elapsed' = 0
    /\ UNCHANGED << scene_vars, clock_vars, recorder_vars, world_vars, coord_vars, lib_vars, caller_vars, main_config, simclock, data_manager, running, sim_time,
                    sync_topic_data, sync_topics_set, required_renderers,
                    subscribed, rx_msg, rx_stop, bus_out, ghost_vars >>

\* The initial barrier going on to the main loop, still running, once its
\* deadline has passed
MainInitialBarrier_TimeoutGoesOn ==
    /\ main_pc = "init_barrier"
    /\ running
    /\ LET p == Poll
       IN /\ sync_topics_set' = p.sync_topics
          /\ rx_msg' = p.rx_msg
          /\ rx_stop' = p.rx_stop
          /\ \E e \in ElapsedAfter(main_elapsed) :
                IF p.sync_topics = {} \/ e > TimeoutInitialSyncTopics
                THEN /\ running' = p.keep_running
                     /\ main_pc' = "loop_head"
                     /\ main_elapsed' = 0
                ELSE /\ running' = p.keep_running
                     /\ main_pc' = "init_barrier"
                     /\ main_elapsed' = e
    /\ UNCHANGED << scene_vars, clock_vars, recorder_vars, world_vars, coord_vars, lib_vars, caller_vars, main_config, simclock, data_manager, sim_time,
                    sync_topic_data, required_renderers, subscribed, bus_out,
                    ghost_vars >>

\* Initial barrier: one turn: poll_messages; leave if the sync set is empty;
\* else check the deadline and look at the stop channel once more
MainInitialBarrier ==
    /\ main_pc = "init_barrier"
    /\ running
    /\ LET p == Poll
       IN /\ sync_topics_set' = p.sync_topics
          /\ rx_msg' = p.rx_msg
          /\ IF p.sync_topics = {}
             THEN /\ running' = p.keep_running
                  /\ rx_stop' = p.rx_stop
                  /\ main_pc' = "loop_head"
                  /\ main_elapsed' = 0
             ELSE \E e \in ElapsedAfter(main_elapsed) :
                  \E late \in IF e = TimeoutInitialSyncTopics THEN BOOLEAN ELSE {FALSE} :
                  /\ main_elapsed' = e
                  /\ running' = InitialBarrierRunning(p.keep_running, e, late,
                                                      p.rx_stop, StopTxAlive)
                  /\ rx_stop' = IF Len(p.rx_stop) > 0 THEN Tail(p.rx_stop)
                                ELSE p.rx_stop
                  /\ main_pc' = "init_barrier"
    /\ UNCHANGED << scene_vars, clock_vars, recorder_vars, world_vars, coord_vars, lib_vars, caller_vars, main_config, simclock, data_manager, sim_time,
                    sync_topic_data, required_renderers, subscribed, bus_out,
                    ghost_vars >>

\* Main loop: running is false, the loop is left
MainLoopExit ==
    /\ main_pc = "loop_head"
    /\ ~running
    /\ main_pc' = "stopping"
    /\ UNCHANGED << scene_vars, clock_vars, recorder_vars, world_vars, coord_vars, lib_vars, caller_vars, main_config, simclock, data_manager, running, sim_time,
                    sync_topic_data, sync_topics_set, required_renderers,
                    main_elapsed, subscribed, rx_msg, rx_stop, bus_out, ghost_vars >>

\* Main loop: the clock is stepped, aerosim.clock is published and the sync
\* set of the new sim time is computed
MainTick ==
    /\ main_pc = "loop_head"
    /\ running
    /\ NumTicks < MaxTicks
    /\ LET t == StepTime(simclock.sim_time, simclock.step_size_ms)
       IN /\ simclock' = [simclock EXCEPT !.sim_time = t]
          /\ sim_time' = t
          /\ Publish(ClockMsg(t))
          /\ sync_topics_set' = get_sync_topics_for_simtime(sync_topic_data, t)
    /\ fresh' = {}
    /\ main_pc' = "barrier"
    /\ UNCHANGED << scene_vars, clock_vars, recorder_vars, world_vars, coord_vars, lib_vars, caller_vars, data_manager, running, sync_topic_data,
                    required_renderers, main_elapsed, subscribed, rx_msg, rx_stop,
                    main_config, delivered, received, sg_acked, cfg_acked, run_base,
                    ticks_at_stop >>

\* Barrier of a tick: the loop is left because running is false
MainBarrierExit ==
    /\ main_pc = "barrier"
    /\ ~running
    /\ main_pc' = "update"
    /\ UNCHANGED << scene_vars, clock_vars, recorder_vars, world_vars, coord_vars, lib_vars, caller_vars, main_config, simclock, data_manager, running, sim_time,
                    sync_topic_data, sync_topics_set, required_renderers,
                    main_elapsed, subscribed, rx_msg, rx_stop, bus_out, ghost_vars >>

\* A barrier turn that gives up waiting and goes on with topics still awaited
MainBarrier_GivesUp ==
    /\ main_pc = "barrier"
    /\ running
    /\ LET p == Poll
       IN /\ running' = p.keep_running
          /\ sync_topics_set' = p.sync_topics
          /\ rx_msg' = p.rx_msg
          /\ rx_stop' = p.rx_stop
          /\ main_pc' = "update"
    /\ UNCHANGED << scene_vars, clock_vars, recorder_vars, world_vars, coord_vars, lib_vars, caller_vars, main_config, simclock, data_manager, sim_time,
                    sync_topic_data, required_renderers, main_elapsed, subscribed,
                    bus_out, ghost_vars >>

\* Barrier of a tick: one turn: poll_messages, leave if the sync set is empty
MainBarrier ==
    /\ main_pc = "barrier"
    /\ running
    /\ LET p == Poll
       IN /\ running' = p.keep_running
          /\ sync_topics_set' = p.sync_topics
          /\ rx_msg' = p.rx_msg
          /\ rx_stop' = p.rx_stop
          /\ main_pc' = IF p.sync_topics = {} THEN "update" ELSE "barrier"
    /\ UNCHANGED << scene_vars, clock_vars, recorder_vars, world_vars, coord_vars, lib_vars, caller_vars, main_config, simclock, data_manager, sim_time,
                    sync_topic_data, required_renderers, main_elapsed, subscribed,
                    bus_out, ghost_vars >>

\* The queue is taken (left empty) and handed to update_world; if an update
\* comes back it is published on aerosim.scene_graph.update.  Then the tick is
\* paced to the step size.
MainUpdate ==
    /\ main_pc = "update"
    /\ scene_graph_data_queue' = << >>
    /\ LET r == update_world(scene_graph, scene_graph_data_queue, sim_time)
       IN /\ scene_graph' = r.scene_graph
          /\ IF r.emitted
             THEN /\ Publish(SceneUpdateMsg(sim_time, r.scene_graph.applied))
                  /\ since_update' = << >>
             ELSE UNCHANGED << bus_out, since_update >>
    /\ main_pc' = "loop_head"
    /\ UNCHANGED << clock_vars, recorder_vars, world_vars, coord_vars, lib_vars, caller_vars, main_config,
                    simclock, data_manager, running, sim_time,
                    sync_topic_data, sync_topics_set, required_renderers,
                    main_elapsed, subscribed, rx_msg, rx_stop, ghost_vars >>

\* DataManager::stop leaving the writer open
DataManagerStop_StaysOpen(dm) == dm

\* DataManager::stop
DataManagerStop(dm) ==
    IF ~dm.enabled THEN dm
    ELSE [dm EXCEPT !.is_open = FALSE, !.finished = dm.finished + 1]

\* The thread is stopping: the stop command is published at the clock's sim
\* time, the data manager is stopped and the thread ends (its receivers go)
MainStop ==
    /\ main_pc = "stopping"
    /\ Publish(Command("stop", simclock.sim_time))
    /\ data_manager' = DataManagerStop(data_manager)
    /\ main_pc' = "done"
    /\ rx_msg' = << >>
    /\ rx_stop' = << >>
    /\ running' = FALSE
    /\ sync_topics_set' = {}
    /\ required_renderers' = {}
    /\ UNCHANGED << scene_vars, clock_vars, recorder_vars, world_vars, coord_vars, lib_vars, caller_vars, main_config, simclock, sim_time, sync_topic_data,
                    main_elapsed, subscribed, ghost_vars >>

-----------------------------------------------------------------------------
(* Specification *)

Next ==
    \/ \E c \in ConfigIds : Load(c)
    \/ LoadReady
    \/ LoadSleep
    \/ LoadTimeout
    \/ StartPanic
    \/ \E ok \in BOOLEAN : Start(ok)
    \/ StopNothing
    \/ Stop
    \/ StopJoin
    \/ \E r \in RendererIds, st \in Statuses : RendererStatus(r, st)
    \/ \E t \in subscribed : \E m \in CallbackInputs(main_config, t) :
          Callback(t, m) /\ UNCHANGED received
    \/ MainLoadSceneGraph
    \/ MainSgReady
    \/ MainSgSleep
    \/ MainSgTimeout
    \/ MainStartCmd
    \/ MainInitialBarrierExit
    \/ MainInitialBarrier
    \/ MainLoopExit
    \/ MainTick
    \/ MainBarrierExit
    \/ MainBarrier
    \/ MainUpdate
    \/ MainStop

Spec == Init /\ [][Next]_vars

\* The orchestrator under the configs with an actor state topic (they declare
\* no renderer, so neither handshake waits)
NextScene ==
    \/ \E c \in SceneConfigIds : Load(c)
    \/ LoadReady
    \/ \E ok \in BOOLEAN : Start(ok)
    \/ Stop
    \/ StopJoin
    \/ \E t \in subscribed : \E m \in CallbackInputs(main_config, t) :
          Callback(t, m) /\ UNCHANGED received
    \/ MainLoadSceneGraph
    \/ MainSgReady
    \/ MainStartCmd
    \/ MainInitialBarrierExit
    \/ MainInitialBarrier
    \/ MainLoopExit
    \/ MainTick
    \/ MainBarrierExit
    \/ MainBarrier
    \/ MainUpdate
    \/ MainStop

SpecScene == Init /\ [][NextScene]_vars

\* The orchestrator under the config with the single sync topic a at the step
\* rate (and one renderer), with the messages the callback takes counted
GatedConfigs ==
    {c \in ConfigIds : /\ Cfg(c).step_size_ms = 20
                       /\ Cfg(c).sync_topics = << SyncEntry("a", 20) >>}

NextGated ==
    \/ \E c \in GatedConfigs : Load(c)
    \/ LoadReady
    \/ LoadSleep
    \/ LoadTimeout
    \/ StartPanic
    \/ \E ok \in BOOLEAN : Start(ok)
    \/ StopNothing
    \/ Stop
    \/ StopJoin
    \/ \E r \in RendererIds, st \in Statuses : RendererStatus(r, st)
    \/ \E t \in subscribed : \E m \in CallbackInputs(main_config, t) :
          Callback(t, m) /\ received' = (IF m.meta_ok THEN received + 1 ELSE received)
    \/ MainLoadSceneGraph
    \/ MainSgReady
    \/ MainSgSleep
    \/ MainSgTimeout
    \/ MainStartCmd
    \/ MainInitialBarrierExit
    \/ MainInitialBarrier
    \/ MainLoopExit
    \/ MainTick
    \/ MainBarrierExit
    \/ MainBarrier
    \/ MainUpdate
    \/ MainStop

SpecGated == Init /\ [][NextGated]_vars

\* The orchestrator under a config with a sync topic no actor or FMU declares
NextUndeclared ==
    \/ \E c \in UndeclaredSyncConfigIds : Load(c)
    \/ LoadReady
    \/ StartPanic
    \/ \E ok \in BOOLEAN : Start(ok)
    \/ StopNothing
    \/ Stop
    \/ StopJoin
    \/ \E t \in subscribed : \E m \in CallbackInputs(main_config, t) :
          Callback(t, m) /\ UNCHANGED received
    \/ MainLoadSceneGraph
    \/ MainSgReady
    \/ MainStartCmd
    \/ MainInitialBarrierExit
    \/ MainInitialBarrier
    \/ MainLoopExit
    \/ MainStop

SpecUndeclared == Init /\ [][NextUndeclared]_vars

-----------------------------------------------------------------------------
(* The SimClock on its own: new, start, step, get_sim_time_from_real_time *)

\* What TimeStamp::now() can read: the system's wall clock, which can read
\* the same twice and can be set back between two readings
WallReadings ==
    {TimeStampNew(1, 500000000), TimeStampNew(2, 0), TimeStampNew(2, 500000000)}
\* The real times asked for: the readings, one before them all, one after
RealTimes == WallReadings \cup {TimeStampNew(1, 0), TimeStampNew(3, 0)}
\* The step sizes a SimClock is made with, in ms
StepSizes == {10, 500}

\* slice::binary_search_by on v[lo+1 .. hi] (1-based) with the comparator
\* real.cmp(key): every result a binary search can end with.  The element
\* probed in a range is any of the range: with several matches any one of
\* them can be found, and on a slice that is not sorted the result is
\* whatever the probes lead to.  found: Ok(idx), else Err(idx); idx is
\* 0-based as in the code.
RECURSIVE binary_search_by(_, _, _, _)
binary_search_by(v, key, lo, hi) ==
    IF lo >= hi
    THEN {[found |-> FALSE, idx |-> lo]}
    ELSE UNION {LET c == TimeStampCmp(v[mid + 1][1], key)
                IN IF c = "Equal" THEN {[found |-> TRUE, idx |-> mid]}
                   ELSE IF c = "Less" THEN binary_search_by(v, key, mid + 1, hi)
                   ELSE binary_search_by(v, key, lo, mid)
                : mid \in lo..(hi - 1)}

\* SimClock::get_sim_time_from_real_time: the sim times it can return
get_sim_time_from_real_time(v, real_time) ==
    IF v = << >>
    THEN {TimeStampNew(0, 0)}
    ELSE {IF r.found THEN v[r.idx + 1][2]
          ELSE IF r.idx = 0 THEN TimeStampNew(0, 0)
          ELSE v[r.idx][2]
          : r \in binary_search_by(v, real_time, 0, Len(v))}

clock_other_vars ==
    << scene_vars, recorder_vars, world_vars, coord_vars, lib_vars, caller_vars, data_manager, main_vars,
       subscribed, rx_msg, rx_stop, bus_out, ghost_vars >>

\* SimClock::new(step_size, pace_1x_scale)
ClockNew(step_ms) ==
    /\ clock_ret.op = "none"
    /\ simclock' = [step_size_ms |-> step_ms, sim_time |-> TimeStampNew(0, 0)]
    /\ sim_start_time' = TimeStampNew(0, 0)
    /\ real_to_sim_time' = << >>
    /\ clock_ret' = [NoCall EXCEPT !.op = "new"]
    /\ UNCHANGED clock_other_vars

\* SimClock::start, TimeStamp::now() reading now
ClockStart(now) ==
    /\ clock_ret.op # "none"
    /\ sim_start_time' = now
    /\ clock_ret' = [NoCall EXCEPT !.op = "start", !.arg = now, !.val = now]
    /\ UNCHANGED << simclock, real_to_sim_time, clock_other_vars >>

\* SimClock::step, TimeStamp::now() reading now_real
ClockStep(now_real) ==
    /\ clock_ret.op # "none"
    /\ Len(real_to_sim_time) < MaxSteps
    /\ LET t == StepTime(simclock.sim_time, simclock.step_size_ms)
       IN /\ simclock' = [simclock EXCEPT !.sim_time = t]
          /\ real_to_sim_time' = Append(real_to_sim_time, << now_real, t >>)
          /\ clock_ret' = [NoCall EXCEPT !.op = "step", !.arg = now_real, !.val = t]
    /\ UNCHANGED << sim_start_time, clock_other_vars >>

\* SimClock::get_sim_time_from_real_time(real_time)
ClockGet(real_time) ==
    /\ clock_ret.op # "none"
    /\ \E r \in get_sim_time_from_real_time(real_to_sim_time, real_time) :
          clock_ret' = [NoCall EXCEPT !.op = "get", !.arg = real_time, !.val = r]
    /\ UNCHANGED << simclock, sim_start_time, real_to_sim_time, clock_other_vars >>

\* metadata.rs: SENTINEL_SECONDS, i32::MIN
SentinelSeconds == -2147483647 - 1

\* The timestamp_sim a message's metadata may carry: the sentinel, sim times,
\* and a time before zero that is not the sentinel
MetaSimTimes ==
    {TimeStampNew(SentinelSeconds, 0), TimeStampNew(0, 0), from_millis(500),
     TimeStampNew(-1, 0)}

\* Metadata::is_sim_time_valid
is_sim_time_valid(timestamp_sim) == timestamp_sim.sec >= 0

\* The raw callback of start(), as far as the timestamp: metadata.timestamp_sim
\* when valid, else get_sim_time_from_real_time(metadata.timestamp_platform);
\* it is the timestamp given to process_data_message, pushed on the scene
\* graph queue and sent on the channel
ClockCallbackTimestamp(timestamp_sim, timestamp_platform) ==
    /\ clock_ret.op # "none"
    /\ \E r \in (IF is_sim_time_valid(timestamp_sim) THEN {timestamp_sim}
                 ELSE get_sim_time_from_real_time(real_to_sim_time,
                                                  timestamp_platform)) :
          clock_ret' = [op |-> "callback", arg |-> timestamp_platform, val |-> r,
                        sim |-> timestamp_sim]
    /\ UNCHANGED << simclock, sim_start_time, real_to_sim_time, clock_other_vars >>

NextClock ==
    \/ \E s \in StepSizes : ClockNew(s)
    \/ \E w \in WallReadings : ClockStart(w)
    \/ \E w \in WallReadings : ClockStep(w)
    \/ \E t \in RealTimes : ClockGet(t)
    \/ \E ts \in MetaSimTimes, t \in RealTimes : ClockCallbackTimestamp(ts, t)

SpecClock == Init /\ [][NextClock]_vars

-----------------------------------------------------------------------------
(* The DataManager on its own: load, process_data_message on the transport
   threads, stop *)

recorder_other_vars ==
    << scene_vars, clock_vars, world_vars, coord_vars, lib_vars, caller_vars, simclock, main_vars, subscribed,
       rx_msg, rx_stop, bus_out, ghost_vars >>

\* DataManager::new and load: with output_sim_data_file the writer is created
\* and is_open set
RecLoad(enabled) ==
    /\ ~data_manager.enabled
    /\ data_manager' = [enabled |-> enabled, is_open |-> enabled, finished |-> 0]
    /\ writer' = [NewWriter EXCEPT !.created = enabled]
    /\ UNCHANGED << transport_pc, channels, schemas, transport_channel, stop_pc,
                    recorder_other_vars >>

\* The id of a schema made when schs are the schemas: schemas.len() as u16
SchemaId(schs) == AsU16(Cardinality(DOMAIN schs))

\* The channel id of a new channel that repeats the first one's
ChannelId_Fixed(chs) == 0

\* The id of a channel made when chs are the channels: channels.len() as u16
ChannelId(chs) == AsU16(Cardinality(DOMAIN chs))

\* schemas after the lookup for a type name: a type seen for the first time
\* gets its entry, the schema if the registry has one for it, else None
SchemasWith(schs, type_name) ==
    IF type_name \in DOMAIN schs THEN schs
    ELSE [k \in DOMAIN schs \cup {type_name} |->
            IF k \in DOMAIN schs THEN schs[k]
            ELSE IF type_name \in TypesWithSchema
                 THEN [some |-> TRUE, id |-> SchemaId(schs)]
                 ELSE NoSchema]

\* channels after the lookup for a message: a topic seen for the first time
\* gets a channel with the schema of the message's type
ChannelsWith(chs, schs, m) ==
    IF m.topic \in DOMAIN chs THEN chs
    ELSE [k \in DOMAIN chs \cup {m.topic} |->
            IF k \in DOMAIN chs THEN chs[k]
            ELSE [topic |-> m.topic, id |-> ChannelId(chs),
                  schema |-> SchemasWith(schs, m.type_name)[m.type_name]]]

\* process_data_message for a message m, up to the message being built: it
\* returns if the recorder is disabled or is_open is false; the lock on
\* is_open is released after the check; under the lock on channels the topic
\* gets its channel and, if the topic is new, the type its schema
RecProcessBegin(th, m) ==
    /\ transport_pc[th] = "idle"
    /\ writer.written < MaxWrites
    /\ IF data_manager.enabled /\ data_manager.is_open
       THEN /\ transport_pc' = [transport_pc EXCEPT ![th] = "checked"]
            /\ channels' = ChannelsWith(channels, schemas, m)
            /\ schemas' = IF m.topic \in DOMAIN channels THEN schemas
                          ELSE SchemasWith(schemas, m.type_name)
            /\ transport_channel' =
                   [transport_channel EXCEPT ![th] = channels'[m.topic]]
       ELSE UNCHANGED << transport_pc, channels, schemas, transport_channel >>
    /\ UNCHANGED << data_manager, stop_pc, writer, recorder_other_vars >>

\* process_data_message from the lock on the writer: writer.write(&message),
\* the message holding the channel
RecProcessWrite(th) ==
    /\ transport_pc[th] = "checked"
    /\ writer' = IF writer.created
                 THEN [writer EXCEPT !.written = @ + 1,
                                     !.late = IF data_manager.finished > 0
                                              THEN @ + 1 ELSE @,
                                     !.log = Append(@, transport_channel[th])]
                 ELSE writer
    /\ transport_pc' = [transport_pc EXCEPT ![th] = "idle"]
    /\ transport_channel' = [transport_channel EXCEPT ![th] = NoChannel]
    /\ UNCHANGED << data_manager, channels, schemas, stop_pc, recorder_other_vars >>

\* DataManager::stop on the orchestrator's thread, up to the lock on the
\* writer: it returns if the recorder is disabled, else is_open becomes false
RecStopBegin ==
    /\ stop_pc = "idle"
    /\ data_manager.finished < MaxStops
    /\ IF data_manager.enabled
       THEN /\ data_manager' = [data_manager EXCEPT !.is_open = FALSE]
            /\ stop_pc' = "closing"
       ELSE UNCHANGED << data_manager, stop_pc >>
    /\ UNCHANGED << transport_pc, channels, schemas, transport_channel, writer,
                    recorder_other_vars >>

\* DataManager::stop from the lock on the writer: writer.finish()
RecStopFinish ==
    /\ stop_pc = "closing"
    /\ data_manager' = DataManagerStop(data_manager)
    /\ stop_pc' = "idle"
    /\ UNCHANGED << transport_pc, channels, schemas, transport_channel, writer,
                    recorder_other_vars >>

NextRecorder ==
    \/ \E e \in BOOLEAN : RecLoad(e)
    \/ \E th \in Transports : \E m \in RecordedMessages : RecProcessBegin(th, m)
    \/ \E th \in Transports : RecProcessWrite(th)
    \/ RecStopBegin
    \/ RecStopFinish

SpecRecorder == Init /\ [][NextRecorder]_vars

-----------------------------------------------------------------------------
(* The SceneGraph's ECS world on its own: load_world, the load_scene_graph
   snapshot, update_world *)

world_other_vars ==
    << scene_vars, clock_vars, recorder_vars, coord_vars, lib_vars, caller_vars, simclock,
       data_manager, main_vars, subscribed, rx_msg, rx_stop, bus_out, ghost_vars >>

\* Sim times update_world is called at
WorldTimes == {from_millis(0), from_millis(20), from_millis(40)}

\* The queues update_world is handed: up to two vehicle states on the actors'
\* state topics
WorldEntries ==
    {[timestamp |-> ts, topic |-> t, payload_type |-> "VehicleState", state |-> p] :
        ts \in StateStamps, t \in {"ta", "tb"}, p \in WorldPoints}
WorldQueues ==
    {<< >>} \cup {<< e >> : e \in WorldEntries}
            \cup {<< e1, e2 >> : e1 \in WorldEntries, e2 \in WorldEntries}

\* The queues of the routing check: one state of any type on any topic (tx is
\* a scene-graph topic no actor names), or two on two topics of actor A
RoutedEntries ==
    {[timestamp |-> from_millis(8), topic |-> TopicOrder[k], payload_type |-> ty,
      state |-> << 1, 2, 3 >>] : k \in DOMAIN TopicOrder, ty \in PayloadTypes}
RoutedQueues ==
    {<< e >> : e \in RoutedEntries}
        \cup {q \in RoutedEntries \X RoutedEntries :
                 /\ {q[1].topic, q[2].topic} = {"ta", "tp"}
                 /\ {q[1].payload_type, q[2].payload_type}
                        \subseteq {"VehicleState", "PrimaryFlightDisplayData"}}

\* orchestrator_main: SceneGraph::new and load_world; a panic ends the thread
WorldLoad(c, g) ==
    /\ world_pc = "new"
    /\ LET r == load_world_entities([NewWorld EXCEPT !.has_global = g],
                                    WorldConfigs[c])
       IN /\ ecs_world' = r.world
          /\ world_pc' = IF r.ok THEN "loaded" ELSE "panicked"
    /\ world_config' = c
    /\ UNCHANGED << snapshot, update_ret, routed, world_other_vars >>

\* orchestrator_main: generate_scene_graph_json for load_scene_graph
WorldSnapshot ==
    /\ world_pc = "loaded"
    /\ snapshot.kind = "none"
    /\ snapshot' = [kind |-> "load_scene_graph",
                    entities |-> generate_scene_graph_json(ecs_world)]
    /\ UNCHANGED << world_pc, world_config, ecs_world, update_ret, routed,
                    world_other_vars >>

\* The main loop: update_world with the drained queue at sim time t
\* a panic in it ends the thread, the call does not return
update_world_call(data_queue, t, rev) ==
    /\ world_pc = "loaded"
    /\ snapshot.kind # "none"
    /\ to_millis(t) >= ecs_world.last_update_time
    /\ LET r == update_world_entities(ecs_world, data_queue, t, rev)
       IN /\ ecs_world' = r.world
          /\ world_pc' = IF r.ok THEN world_pc ELSE "panicked"
          /\ snapshot' = IF r.emitted
                         THEN [kind |-> "update",
                               entities |-> generate_scene_graph_json(r.world)]
                         ELSE snapshot
          /\ update_ret' = IF r.ok
                           THEN [called |-> TRUE, sim_time |-> to_millis(t),
                                 emitted |-> r.emitted]
                           ELSE update_ret
    /\ UNCHANGED << world_config, world_other_vars >>

\* (the queues of WorldQueues hold the state topics of two entities, which
\* the loop over the latest entries handles alike in either order)
WorldUpdate(data_queue, t) ==
    /\ update_world_call(data_queue, t, FALSE)
    /\ UNCHANGED routed

NextWorld ==
    \/ \E c \in 1..Len(WorldConfigs), g \in BOOLEAN : WorldLoad(c, g)
    \/ WorldSnapshot
    \/ \E q \in WorldQueues, t \in WorldTimes : WorldUpdate(q, t)

SpecWorld == Init /\ [][NextWorld]_vars

\* The routing of update_world on its own.  orchestrator_main: SceneGraph::new
\* and load_world with the world description of every kind of topic
RouteLoad ==
    /\ world_pc = "new"
    /\ LET r == load_world_entities(NewWorld, RouteConfig)
       IN /\ ecs_world' = r.world
          /\ world_pc' = IF r.ok THEN "loaded" ELSE "panicked"
    /\ UNCHANGED << world_config, snapshot, update_ret, routed, world_other_vars >>

\* The main loop: update_world with the drained queue at sim time t, the
\* latest entries taken in one order or the other; routed keeps what they were
RouteUpdate(data_queue, t, rev) ==
    /\ update_world_call(data_queue, t, rev)
    /\ routed' = routed_payloads(data_queue)

NextRoute ==
    \/ RouteLoad
    \/ WorldSnapshot
    \/ \E q \in RoutedQueues, rev \in BOOLEAN :
          RouteUpdate(q, from_millis(20), rev)

SpecRoute == Init /\ [][NextRoute]_vars

-----------------------------------------------------------------------------
(* A WorldCoordinate on its own: the four mutators *)

coord_other_vars ==
    << scene_vars, clock_vars, recorder_vars, world_vars, lib_vars, caller_vars, simclock,
       data_manager, main_vars, subscribed, rx_msg, rx_stop, bus_out, ghost_vars >>

CoordSetNed(v) ==
    /\ world_coord' = set_ned(world_coord, v)
    /\ coord_call' = [op |-> "set_ned", input |-> v]
    /\ UNCHANGED coord_other_vars

CoordSetLla(v) ==
    /\ world_coord' = set_lla(world_coord, v)
    /\ coord_call' = [op |-> "set_lla", input |-> v]
    /\ UNCHANGED coord_other_vars

CoordSetEcef(v) ==
    /\ world_coord' = set_ecef(world_coord, v)
    /\ coord_call' = [op |-> "set_ecef", input |-> v]
    /\ UNCHANGED coord_other_vars

CoordSetCartesian(v) ==
    /\ world_coord' = set_cartesian(world_coord, v)
    /\ coord_call' = [op |-> "set_cartesian", input |-> v]
    /\ UNCHANGED coord_other_vars

NextCoord ==
    \/ \E v \in CoordPoints : CoordSetNed(v)
    \/ \E v \in CoordPoints : CoordSetLla(v)
    \/ \E v \in CoordPoints : CoordSetEcef(v)
    \/ \E v \in CoordPoints : CoordSetCartesian(v)

SpecCoord == Init /\ [][NextCoord]_vars

-----------------------------------------------------------------------------
(* warn_rate_limited on its own *)

warn_other_vars ==
    << scene_vars, clock_vars, recorder_vars, world_vars, coord_vars, registry_vars,
       wait_vars, order_vars, thread_vars, caller_vars,
       simclock, data_manager, main_vars, subscribed, rx_msg, rx_stop, bus_out,
       ghost_vars >>

\* A call of warn_rate_limited(key, message, min_interval), Instant::now()
\* reading now; warn!(message) is what last_logged and warn_call.logged record
WarnRateLimited(key, now, min_interval) ==
    /\ warn_call.n < MaxWarnCalls
    /\ now >= warn_call.now
    /\ LET r == warn_rate_limited(warning_timestamps, key, now, min_interval)
       IN /\ warning_timestamps' = r.timestamps
          /\ last_logged' = IF r.should_log THEN [last_logged EXCEPT ![key] = now]
                            ELSE last_logged
          /\ warn_call' = [n |-> warn_call.n + 1, key |-> key, now |-> now,
                           min_interval |-> min_interval, logged |-> r.should_log]
    /\ UNCHANGED warn_other_vars

NextWarn ==
    \E key \in WarnKeys, now \in 0..MaxInstant, d \in MinIntervals :
        WarnRateLimited(key, now, d)

SpecWarn == Init /\ [][NextWarn]_vars

-----------------------------------------------------------------------------
(* The two registries on their own *)

registry_other_vars ==
    << scene_vars, clock_vars, recorder_vars, world_vars, coord_vars, warn_vars,
       wait_vars, order_vars, thread_vars, caller_vars, simclock, data_manager, main_vars, subscribed, rx_msg,
       rx_stop, bus_out, ghost_vars >>

\* TypeRegistry::register::<T>, T of type name name
TypeRegister(name, entry) ==
    /\ LET r == register(types, name, entry)
       IN /\ types' = r.map
          /\ reg_call' = [op |-> "type_register", name |-> name, entry |-> entry,
                          ret |-> IF r.ok THEN "Ok" ELSE "Err"]
    /\ UNCHANGED << middlewares, registry_other_vars >>

\* TypeRegistry::get
TypeGet(name) ==
    /\ reg_call' = [op |-> "type_get", name |-> name, entry |-> "",
                    ret |-> get(types, name)]
    /\ UNCHANGED << types, middlewares, registry_other_vars >>

\* MiddlewareRegistry::register
MiddlewareRegister(name, entry) ==
    /\ LET r == register(middlewares, name, entry)
       IN /\ middlewares' = r.map
          /\ reg_call' = [op |-> "middleware_register", name |-> name,
                          entry |-> entry,
                          ret |-> IF r.ok THEN "Ok" ELSE "Err"]
    /\ UNCHANGED << types, registry_other_vars >>

\* MiddlewareRegistry::get
MiddlewareGet(name) ==
    /\ reg_call' = [op |-> "middleware_get", name |-> name, entry |-> "",
                    ret |-> get(middlewares, name)]
    /\ UNCHANGED << types, middlewares, registry_other_vars >>

NextRegistry ==
    \/ \E n \in RegNames, e \in RegEntries : TypeRegister(n, e)
    \/ \E n \in RegNames : TypeGet(n)
    \/ \E n \in RegNames, e \in RegEntries : MiddlewareRegister(n, e)
    \/ \E n \in RegNames : MiddlewareGet(n)

SpecRegistry == Init /\ [][NextRegistry]_vars

-----------------------------------------------------------------------------
(* The callback and the barrier on their own *)

order_other_vars ==
    << scene_vars, clock_vars, recorder_vars, world_vars, coord_vars, warn_vars,
       registry_vars, wait_vars, thread_vars, caller_vars, simclock, data_manager,
       main_vars, subscribed, rx_msg, rx_stop, bus_out, ghost_vars >>

OrderTopic == "t"

\* start(): the topic is subscribed and the main loop thread spawned; it
\* comes to the initial barrier with the sync set of sim time 0
OrderStart ==
    /\ ord.pc = "none"
    /\ ord' = [ord EXCEPT !.pc = "initial", !.sync_topics_set = {OrderTopic}]
    /\ UNCHANGED order_other_vars

\* The callback for the next message, up to the scene-graph queue: metadata
\* and timestamp, the data manager, and the push of the state if the payload
\* deserializes (state_ok)
OrderCallbackPush(state_ok) ==
    /\ ord.pc # "none"
    /\ ord.cb = 0
    /\ ord.next <= MaxOrderMsgs
    /\ ord' = [ord EXCEPT !.cb = ord.next, !.next = ord.next + 1,
                          !.scene_graph_data_queue =
                              IF state_ok THEN Append(@, ord.next) ELSE @,
                          !.with_state =
                              IF state_ok THEN @ \cup {ord.next} ELSE @]
    /\ UNCHANGED order_other_vars

\* The callback's last statement: tx_msg.send((timestamp, topic))
OrderCallbackSend ==
    /\ ord.cb # 0
    /\ ord' = [ord EXCEPT !.cb = 0, !.rx_msg = Append(@, ord.cb)]
    /\ UNCHANGED order_other_vars

\* The main loop: simclock.step() and the publish of the clock, then the sync
\* set of the tick
OrderPublish ==
    /\ ord.pc = "publish"
    /\ ord.tick < MaxOrderTicks
    /\ ord' = [ord EXCEPT !.pc = "barrier", !.tick = @ + 1,
                          !.sync_topics_set = {OrderTopic}, !.released_by = 0]
    /\ UNCHANGED order_other_vars

\* poll_messages with a notification in the channel (no stop requested): the
\* topic is removed from the sync set, which ends the barrier; the initial
\* barrier is followed by the first tick, a tick's barrier by the drain
OrderPoll ==
    /\ ord.pc \in {"initial", "barrier"}
    /\ ord.sync_topics_set # {}
    /\ ord.rx_msg # << >>
    /\ ord' = [ord EXCEPT !.rx_msg = Tail(@), !.sync_topics_set = {},
                          !.released_by = Head(ord.rx_msg),
                          !.pc = IF ord.pc = "initial" THEN "publish" ELSE "drain"]
    /\ UNCHANGED order_other_vars

\* The main loop: the queue is taken (std::mem::take) and handed to
\* update_world
OrderDrain ==
    /\ ord.pc = "drain"
    /\ ord' = [ord EXCEPT !.pc = "publish", !.scene_graph_data_queue = << >>,
                          !.drained = {ord.scene_graph_data_queue[k] :
                                          k \in DOMAIN ord.scene_graph_data_queue}]
    /\ UNCHANGED order_other_vars

NextOrder ==
    \/ OrderStart
    \/ \E state_ok \in BOOLEAN : OrderCallbackPush(state_ok)
    \/ OrderCallbackSend
    \/ OrderPublish
    \/ OrderPoll
    \/ OrderDrain

SpecOrder == Init /\ [][NextOrder]_vars

-----------------------------------------------------------------------------
(* The calls on one Orchestrator and its threads on their own *)

thread_other_vars ==
    << scene_vars, clock_vars, recorder_vars, world_vars, coord_vars, warn_vars,
       registry_vars, wait_vars, order_vars, caller_vars, simclock, data_manager,
       main_vars, subscribed, rx_msg, rx_stop, bus_out, ghost_vars >>

\* load(), whether it returns Ok or the timeout error: the sim clock, the
\* runtime, the data manager and the middleware are assigned; nothing in it
\* looks at the thread handle or the stop sender
ThreadsLoad ==
    /\ thr.joining = 0
    /\ thr' = [thr EXCEPT !.loaded = TRUE]
    /\ UNCHANGED thread_other_vars

\* start() with the sim clock None: take().expect() panics, nothing changed
ThreadsStartPanic ==
    /\ thr.joining = 0
    /\ ~thr.loaded
    /\ UNCHANGED vars

\* start(): the four fields are taken, the stop channel is created and its
\* sender assigned to orchestrator_thread_tx_stop (the sender that was there
\* is dropped), the thread is spawned and its handle assigned to
\* orchestrator_thread_handle (the handle that was there is dropped, which
\* detaches its thread)
ThreadsStart ==
    /\ thr.joining = 0
    /\ thr.loaded
    /\ thr.spawned < MaxThreads
    /\ LET id == thr.spawned + 1
       IN thr' = [thr EXCEPT !.loaded = FALSE, !.spawned = id,
                             !.orchestrator_thread_tx_stop = id,
                             !.orchestrator_thread_handle = id,
                             !.alive = @ \cup {id},
                             !.disconnected =
                                 IF thr.orchestrator_thread_tx_stop = 0 THEN @
                                 ELSE @ \cup {thr.orchestrator_thread_tx_stop}]
    /\ UNCHANGED thread_other_vars

\* stop() with no stop sender: returns at once
ThreadsStopNothing ==
    /\ thr.joining = 0
    /\ thr.orchestrator_thread_tx_stop = 0
    /\ UNCHANGED vars

\* stop(): the sender is taken, true is sent and the sender dropped, the
\* handle is taken and joined
ThreadsStop ==
    /\ thr.joining = 0
    /\ thr.orchestrator_thread_tx_stop # 0
    /\ thr' = [thr EXCEPT !.orchestrator_thread_tx_stop = 0,
                          !.orchestrator_thread_handle = 0,
                          !.stop_sent = @ \cup {thr.orchestrator_thread_tx_stop},
                          !.disconnected = @ \cup {thr.orchestrator_thread_tx_stop},
                          !.joining = thr.orchestrator_thread_handle]
    /\ UNCHANGED thread_other_vars

\* stop(): handle.join() returns once the thread has ended
ThreadsJoin ==
    /\ thr.joining # 0
    /\ thr.joining \notin thr.alive
    /\ thr' = [thr EXCEPT !.joining = 0]
    /\ UNCHANGED thread_other_vars

\* A main-loop thread ends: it read the stop flag or found its stop channel
\* disconnected in poll_messages or in the initial barrier, or it gave up on
\* its own (timed_out: the scene-graph handshake or the initial barrier
\* timed out)
ThreadsEnd(id, timed_out) ==
    /\ id \in thr.alive
    /\ id \in thr.stop_sent \/ id \in thr.disconnected \/ timed_out
    /\ thr' = [thr EXCEPT !.alive = @ \ {id}]
    /\ UNCHANGED thread_other_vars

NextThreads ==
    \/ ThreadsLoad
    \/ ThreadsStartPanic
    \/ ThreadsStart
    \/ ThreadsStopNothing
    \/ ThreadsStop
    \/ ThreadsJoin
    \/ \E id \in 1..MaxThreads, timed_out \in BOOLEAN : ThreadsEnd(id, timed_out)

SpecThreads == Init /\ [][NextThreads]_vars

-----------------------------------------------------------------------------
(* The wait loops on their own *)

wait_other_vars ==
    << scene_vars, clock_vars, recorder_vars, world_vars, coord_vars, warn_vars,
       registry_vars, order_vars, thread_vars, caller_vars, simclock, data_manager,
       main_vars, subscribed, rx_msg, rx_stop, bus_out, ghost_vars >>

\* A wait loop is entered: start_time = Instant::now(), retry_num = 0
\* (notify_at_sec = 5 in the initial barrier)
WaitBegin(loop) ==
    /\ wait.pc = "idle"
    /\ wait.loop = "none"
    /\ wait' = [NoWait EXCEPT !.loop = loop, !.pc = "top",
                              !.count = IF loop = "initial_barrier"
                                        THEN NotifyEvery ELSE 0]
    /\ UNCHANGED wait_other_vars

\* load() and the scene-graph handshake, the loop's head:
\* while start_time.elapsed() < timeout, and the break when required_renderers
\* is empty
WaitHead(empty) ==
    /\ wait.pc = "top"
    /\ wait.loop \in {"load", "scene_graph"}
    /\ wait' = [wait EXCEPT !.pc = IF wait.elapsed >= TimeoutRenderersReady
                                   THEN "timeout"
                                   ELSE IF empty THEN "ready" ELSE "sleep"]
    /\ UNCHANGED wait_other_vars

\* The sleep, retry_num += 1, and on every RetryEvery-th (SgRetryEvery-th)
\* turn the log line with the remaining seconds (and in load() the publish);
\* secs is what the elapsed whole seconds grew by (n sleeps of 100 ms take at
\* least n / 10 seconds), panics whether the build checks the subtraction
WaitSleep(secs, panics) ==
    /\ wait.pc = "sleep"
    /\ LET e == wait.elapsed + secs
           n == wait.count + 1
           every == IF wait.loop = "load" THEN RetryEvery ELSE SgRetryEvery
           rem == IF n % every = 0 THEN RemainingSecs(TimeoutRenderersReady, e)
                  ELSE wait.remaining
       IN wait' = [wait EXCEPT !.elapsed = e, !.count = n, !.remaining = rem,
                               !.pc = IF n % every = 0 /\ rem.underflow /\ panics
                                      THEN "panicked" ELSE "top"]
    /\ secs \in (IF wait.loop = "load" THEN SleepSecs ELSE ShortSleepSecs)
    /\ wait.loop = "scene_graph" =>
          wait.elapsed + secs >= (wait.count + 1) \div SleepsPerSec
    /\ UNCHANGED wait_other_vars

\* The initial barrier, one turn with the sync set not empty and no stop:
\* past the timeout running = false, else at notify_at_sec the log line with
\* the remaining seconds and notify_at_sec += 5.  exact: the elapsed time is a
\* whole number of seconds (so 60 is not yet past the timeout)
WaitBarrierTurn(secs, exact, panics) ==
    /\ wait.pc = "top"
    /\ wait.loop = "initial_barrier"
    /\ LET e == wait.elapsed + secs
           past == e > TimeoutInitialSyncTopics
                   \/ (e = TimeoutInitialSyncTopics /\ ~exact)
           rem == RemainingSecs(TimeoutInitialSyncTopics, e)
       IN wait' = IF past THEN [wait EXCEPT !.elapsed = e, !.pc = "timeout"]
                  ELSE IF e = wait.count
                  THEN [wait EXCEPT !.elapsed = e, !.remaining = rem,
                                    !.count = wait.count + NotifyEvery,
                                    !.pc = IF rem.underflow /\ panics
                                           THEN "panicked" ELSE "top"]
                  ELSE [wait EXCEPT !.elapsed = e]
    /\ UNCHANGED wait_other_vars

\* The initial barrier ends with the sync set empty
WaitBarrierReady ==
    /\ wait.pc = "top"
    /\ wait.loop = "initial_barrier"
    /\ wait' = [wait EXCEPT !.pc = "ready"]
    /\ UNCHANGED wait_other_vars

NextWait ==
    \/ \E loop \in {"load", "scene_graph", "initial_barrier"} : WaitBegin(loop)
    \/ \E empty \in BOOLEAN : WaitHead(empty)
    \/ \E secs \in ShortSleepSecs, panics \in BOOLEAN : WaitSleep(secs, panics)
    \/ \E secs \in TurnSecs, exact \in BOOLEAN, panics \in BOOLEAN :
          WaitBarrierTurn(secs, exact, panics)
    \/ WaitBarrierReady

SpecWait == Init /\ [][NextWait]_vars

-----------------------------------------------------------------------------
(* Notions the properties are stated in *)

IsCommand(m, name) == m.topic = CommandsTopic /\ m.command = name
IsTick(m) == m.topic = ClockTopic

\* The commands published so far, in order
Cmds == SelectSeq(bus_out, LAMBDA m : m.topic = CommandsTopic)

\* The step in which the main loop steps the clock and publishes the next tick
TickStep == main_pc = "loop_head" /\ main_pc' = "barrier"

\* The topics declared under orchestrator.sync_topics of the running config
DeclaredSyncTopics == {sync_topic_data[i].topic : i \in 1..Len(sync_topic_data)}

\* d divides n, for d > 0
Divides(d, n) == (n \div d) * d = n

\* The participation rule: each part of the interval is zero or divides the
\* same part of the sim time
Participates(interval, t) ==
    /\ interval.sec = 0 \/ Divides(interval.sec, t.sec)
    /\ interval.nanosec = 0 \/ Divides(interval.nanosec, t.nanosec)

ParticipatingTopics(t) ==
    {sync_topic_data[i].topic :
        i \in {j \in 1..Len(sync_topic_data) :
                  Participates(sync_topic_data[j].interval, t)}}

\* The stamp of the last tick among msgs, zero when there is none
RECURSIVE LastTickStamp(_)
LastTickStamp(msgs) ==
    IF Len(msgs) = 0 THEN TimeStampNew(0, 0)
    ELSE IF IsTick(msgs[Len(msgs)]) THEN msgs[Len(msgs)].stamp
    ELSE LastTickStamp(SubSeq(msgs, 1, Len(msgs) - 1))

-----------------------------------------------------------------------------
(* Properties *)

\* C1: whenever the main loop steps the clock from tick t to tick t+1, every
\* sync topic applicable at tick t has had a message delivered after the
\* aerosim.clock publish of tick t; a notification pending before that publish
\* does not release tick t.
C1_TickNeedsFreshMessage ==
    [][(TickStep /\ NumTicks > 0)
         => get_sync_topics_for_simtime(sync_topic_data, sim_time) \subseteq fresh]_vars

C3_StopEndsTicking ==
    ticks_at_stop >= 1 => NumTicks <= ticks_at_stop + 1

\* C4: a sync topic with a positive interval_ms is in the barrier set of a tick
\* exactly when the tick's sim time is an integer multiple of interval_ms.
C4_OnlyAtMultiples ==
    [][TickStep =>
         \A i \in 1..Len(Cfg(main_config).sync_topics) :
            LET e == Cfg(main_config).sync_topics[i]
            IN e.interval_ms > 0 =>
                 ((e.topic \in sync_topics_set')
                    <=> (to_millis(sim_time') % e.interval_ms = 0))]_vars

\* C5: the sync set computed for a sim time t (of the initial barrier and of
\* every tick) is exactly the set of topics whose interval has each part zero
\* or dividing the same part of t.
C5_ParticipationRule ==
    [][(TickStep \/ (main_pc = "start_cmd" /\ main_pc' = "init_barrier"))
         => sync_topics_set' = ParticipatingTopics(sim_time')]_vars

\* C5 witness: at sim time 1 s the topic with a 2 s interval is left out and
\* the topic with a zero interval is in
C5_Witness ==
    /\ main_pc = "barrier"
    /\ sim_time = TimeStampNew(1, 0)
    /\ DeclaredSyncTopics = {"a", "b"}
    /\ sync_topics_set = {"b"}
    /\ fresh = {}

C7_NoStartAfterLoadTimeout ==
    load_result = "timeout" =>
        \A i \in 1..Len(RunMsgs) : ~IsCommand(RunMsgs[i], "start")

\* C8: a load() that returns the timeout error leaves the orchestrator's
\* fields (config, sim clock, data recorder, middleware, runtime) as they were
\* when it was entered.
C8_FailedLoadChangesNothing ==
    [][(caller_pc = "load_wait" /\ load_result' = "timeout") => orch' = pre_load]_vars

C10_InitialBarrier ==
    main_pc # "none" =>
        /\ get_sync_topics_for_simtime(sync_topic_data, TimeStampNew(0, 0))
              = DeclaredSyncTopics
        /\ NumTicks > 0 => DeclaredSyncTopics \subseteq delivered

\* C10 witness: a run with two declared sync topics has published a tick
C10_Witness ==
    /\ MainAlive
    /\ NumTicks >= 1
    /\ Cardinality(DeclaredSyncTopics) = 2

\* The step in which the main loop takes the queue and calls update_world
UpdateStep == main_pc = "update" /\ main_pc' = "loop_head"
\* ... and update_world returns an update, which is published
UpdateEmitted == UpdateStep /\ Len(bus_out') > Len(bus_out)

\* The entries of a sequence of queue entries that are on topic tp
OnTopic(entries, tp) == {i \in 1..Len(entries) : entries[i].topic = tp}
\* No entry on tp has a greater timestamp than the i-th
IsLatest(entries, tp, i) ==
    \A j \in OnTopic(entries, tp) :
        TimeStampCmp(entries[j].timestamp, entries[i].timestamp) # "Greater"

\* C18: when a scene-graph update goes out, the state it shows for each topic
\* is that of a latest-timestamp payload among those received on the topic
\* since the scene graph was last published (by load_scene_graph or by the
\* update before), also when the update was skipped at ticks in between.
C18_UpdateReflectsReceived ==
    [][UpdateEmitted =>
         \A tp \in DOMAIN scene_graph.applied :
            OnTopic(since_update, tp) # {} =>
               \E i \in OnTopic(since_update, tp) :
                  /\ IsLatest(since_update, tp, i)
                  /\ scene_graph'.applied[tp] = since_update[i].state]_vars

\* C19: one update_world call applies, for each topic in the queue it is
\* given, the payload with the greatest timestamp, and among those with that
\* timestamp the one enqueued last.
C19_LatestLastEnqueuedWins ==
    [][UpdateEmitted =>
         \A tp \in DOMAIN scene_graph.applied :
            \A i \in OnTopic(scene_graph_data_queue, tp) :
               (/\ IsLatest(scene_graph_data_queue, tp, i)
                /\ \A j \in OnTopic(scene_graph_data_queue, tp) :
                      IsLatest(scene_graph_data_queue, tp, j) => j <= i)
               => scene_graph'.applied[tp] = scene_graph_data_queue[i].state]_vars

\* C20: a message on an actor state topic that is not enqueued for the scene
\* graph (its metadata or its state failed to deserialize) sends no barrier
\* notification: whenever a notification for such a topic is sent, an entry is
\* enqueued with it.
C20_DroppedMessageNotifiesNothing ==
    [][(/\ Len(rx_msg') > Len(rx_msg)
        /\ rx_msg'[Len(rx_msg')] \in Cfg(main_config).sg_topics)
         => Len(scene_graph_data_queue') > Len(scene_graph_data_queue)]_vars

\* The main thread waits in a barrier: a topic is awaited and no notification
\* is pending
Blocked ==
    /\ main_pc \in {"init_barrier", "barrier"}
    /\ running
    /\ sync_topics_set # {}
    /\ rx_msg = << >>

\* The clock ticks the run has published, in order
Ticks == SelectSeq(RunMsgs, IsTick)

\* C11 as stated: with step 20 ms and the single sync topic a at 20 ms the
\* first tick (20 ms) goes out after start before the orchestrator blocks, and
\* each message on a releases one further tick: whenever the orchestrator is
\* blocked it has published one tick more than it has received messages on a.
C11_FirstTickBeforeBlocking ==
    Blocked => NumTicks = 1 + received

\* C11 amended: the first tick too waits for a message on a (the initial
\* barrier takes it): the ticks published never exceed the messages received
\* on a, and equal them whenever the orchestrator is blocked.
C11_OneTickPerMessage ==
    /\ NumTicks <= received
    /\ Blocked => NumTicks = received

\* C11 witness: two messages on a have released the ticks at 20 ms and 40 ms
\* and the orchestrator is blocked again
C11_Witness ==
    /\ Blocked
    /\ received = 2
    /\ [i \in 1..Len(Ticks) |-> to_millis(Ticks[i].stamp)] = << 20, 40 >>

\* C14: the i-th clock message of a run carries i times the step size: every
\* step adds exactly step_size, so sim time increases strictly, with no gap
\* and no repeat, and the SimClock's sim time is that of the last tick.
C14_TicksAreMultiplesOfStep ==
    main_pc # "none" =>
        /\ \A i \in 1..Len(Ticks) :
              Ticks[i].stamp = from_millis(i * Cfg(main_config).step_size_ms)
        /\ \A i \in 1..(Len(Ticks) - 1) :
              TimeStampCmp(Ticks[i].stamp, Ticks[i + 1].stamp) = "Less"
        /\ orch.simclock = 0 =>
              simclock.sim_time = from_millis(Len(Ticks) * Cfg(main_config).step_size_ms)

\* C14 witness: three ticks of 500 ms: 0.5 s, 1 s, 1.5 s
C14_Witness ==
    /\ main_pc # "none"
    /\ Cfg(main_config).step_size_ms = 500
    /\ [i \in 1..Len(Ticks) |-> Ticks[i].stamp]
          = << TimeStampNew(0, 500000000), TimeStampNew(1, 0),
               TimeStampNew(1, 500000000) >>

\* The ticks recorded whose wall timestamp is at most t, as indices
TicksUpTo(v, t) ==
    {i \in 1..Len(v) : TimeStampCmp(v[i][1], t) \in {"Less", "Equal"}}

\* The greatest of a non-empty set of indices
MaxIdx(S) == CHOOSE i \in S : \A j \in S : j <= i

\* C15: get_sim_time_from_real_time applied to the wall timestamp a tick
\* recorded returns that tick's sim time, whatever the wall clock read at the
\* steps (two ticks with the same reading included).
C15_LookupOfTickWallTime ==
    clock_ret.op = "get" =>
        \A i \in 1..Len(real_to_sim_time) :
            real_to_sim_time[i][1] = clock_ret.arg
                => clock_ret.val = real_to_sim_time[i][2]

\* C16: get_sim_time_from_real_time(t_real) returns the sim time of the
\* latest recorded tick whose wall timestamp is <= t_real, and zero when there
\* is none (t_real before the first tick, or nothing recorded).
C16_LatestTickUpTo ==
    clock_ret.op = "get" =>
        LET S == TicksUpTo(real_to_sim_time, clock_ret.arg)
        IN clock_ret.val = IF S = {} THEN TimeStampNew(0, 0)
                           ELSE real_to_sim_time[MaxIdx(S)][2]

\* C17: start() records and returns the wall time as the sim start time and
\* leaves the sim time at zero, whatever number of step() calls preceded it.
C17_StartResetsSimTime ==
    clock_ret.op = "start" =>
        /\ sim_start_time = clock_ret.arg
        /\ clock_ret.val = clock_ret.arg
        /\ simclock.sim_time = TimeStampNew(0, 0)

\* C12: in every interleaving of process_data_message on the transport
\* threads with stop(), no write reaches the log writer after stop() has
\* finished it.
C12_NoWriteAfterFinish ==
    writer.late = 0

\* C13: stop() called twice finishes the log writer once: the second call
\* does not finish it again.
C13_FinishedOnce ==
    data_manager.finished <= 1

\* C21: while the main thread runs with its subscription made, every sync
\* topic declared under orchestrator.sync_topics is among the subscribed
\* topics, one that no actor, sensor or FMU entry declares included.
C21_SyncTopicsSubscribed ==
    (MainAlive /\ subscribed # {}) => DeclaredSyncTopics \subseteq subscribed

\* One turn of the initial barrier that reads an elapsed time beyond the
\* deadline with a sync topic still awaited
InitialTimeoutTurn ==
    /\ main_pc = "init_barrier"
    /\ running
    /\ main_pc' = "init_barrier"
    /\ sync_topics_set' # {}
    /\ main_elapsed' > TimeoutInitialSyncTopics

\* A step that publishes a clock tick
PublishesTick ==
    /\ Len(bus_out') = Len(bus_out) + 1
    /\ bus_out'[Len(bus_out')].topic = ClockTopic

\* C29 as stated: when the initial barrier's 60 s deadline passes with a sync
\* topic still awaited, the orchestrator is still running and goes on to the
\* main loop.
C29_TimeoutEntersMainLoop ==
    [][InitialTimeoutTurn => running']_vars

\* C29 amended: when the deadline passes with a sync topic still awaited, the
\* orchestrator stops running, and from then on publishes no clock tick.
C29_TimeoutStopsTheRun ==
    [][/\ InitialTimeoutTurn => ~running'
       /\ (MainAlive /\ ~running) => ~PublishesTick]_vars

\* C29 witness: a run ended by the deadline alone: stop() was never called, a
\* declared sync topic never delivered, the stop command is out, no tick is
C29_Witness ==
    /\ main_pc = "done"
    /\ ticks_at_stop = -1
    /\ ~(DeclaredSyncTopics \subseteq delivered)
    /\ NumTicks = 0
    /\ Len(RunMsgs) > 0
    /\ RunMsgs[Len(RunMsgs)].command = "stop"

\* C27: load() has returned Ok only if every declared renderer's config_loaded
\* reached the status callback during that load(); with no declared renderer
\* load() does not wait (no sleep, no retry) and never returns the timeout
\* error.
C27_LoadOkNeedsEveryAck ==
    /\ load_result = "ok" => Cfg(orch.sim_config).renderers \subseteq cfg_acked
    /\ (caller_pc = "load_wait" /\ Cfg(orch.sim_config).renderers = {})
          => (load_elapsed = 0 /\ retry_num = 0)
    /\ load_result = "timeout" => Cfg(orch.sim_config).renderers # {}

\* C27 witness: load() of a config with a renderer has returned Ok
C27_Witness ==
    /\ load_result = "ok"
    /\ Cfg(orch.sim_config).renderers = {"R1"}
    /\ cfg_acked = {"R1"}

\* C28, for the scene-graph handshake: while a renderer's scene_graph_loaded
\* is awaited, load_scene_graph is published again whenever another 5 seconds
\* of the wait have passed.
C28_SceneGraphRepublished ==
    [][(/\ main_pc = "sg_wait"
        /\ main_pc' = "sg_wait"
        /\ required_renderers' # {}
        /\ main_elapsed' < TimeoutRenderersReady
        /\ main_elapsed' \div RetryEvery > main_elapsed \div RetryEvery)
          => Len(bus_out') > Len(bus_out)]_vars

\* The schemas the DataManager holds (the entries that are not None)
SchemaTypes == {k \in DOMAIN schemas : schemas[k].some}

\* C30: each topic recorded has its one channel, channel ids are pairwise
\* distinct and so are schema ids, a channel's schema is the schema bound to a
\* type name, an id once assigned never changes, and every record written for
\* a topic references that topic's channel.
C30_ChannelAndSchemaIds ==
    [][/\ \A t1, t2 \in DOMAIN channels' :
             /\ channels'[t1].topic = t1
             /\ channels'[t1].id = channels'[t2].id => t1 = t2
       /\ \A k1, k2 \in SchemaTypes' :
             schemas'[k1].id = schemas'[k2].id => k1 = k2
       /\ \A t \in DOMAIN channels' :
             channels'[t].schema.some
                => \E k \in SchemaTypes' : schemas'[k] = channels'[t].schema
       /\ \A t \in DOMAIN channels : t \in DOMAIN channels' /\ channels'[t] = channels[t]
       /\ \A k \in DOMAIN schemas : k \in DOMAIN schemas' /\ schemas'[k] = schemas[k]
       /\ \A i \in 1..Len(writer'.log) :
             /\ writer'.log[i].topic \in DOMAIN channels'
             /\ writer'.log[i] = channels'[writer'.log[i].topic]]_vars

\* C30 witness: three topics have their channels, two of them share the one
\* schema of their type, and two records of one topic are written
C30_Witness ==
    /\ DOMAIN channels = {"a", "b", "c"}
    /\ channels["a"].schema = channels["b"].schema
    /\ channels["a"].schema.some
    /\ ~channels["c"].schema.some
    /\ \E i, j \in 1..Len(writer.log) : i < j /\ writer.log[i].topic = writer.log[j].topic


LoadedEntityNames ==
    [k \in 0..(Len(WorldConfigs[world_config].actors) - 1) |->
        WorldConfigs[world_config].actors[k + 1].actor_name]

\* C22: every entity load_world created is in the load_scene_graph snapshot
\* and in every snapshot update_world emits after it, under its key and name;
\* update_world never creates or removes an entity (the world's entities stay
\* those load_world made)
C22_EntitiesInEverySnapshot ==
    world_pc = "loaded" =>
        /\ [k \in 0..(Len(ecs_world.entities) - 1) |->
               ecs_world.entities[k + 1].actor_name] = LoadedEntityNames
        /\ snapshot.kind # "none" =>
              /\ DOMAIN snapshot.entities = DOMAIN LoadedEntityNames
              /\ \A k \in DOMAIN LoadedEntityNames :
                    snapshot.entities[k].actor_name = LoadedEntityNames[k]

\* C22's case: a world of three entities, one moved by a vehicle state, and a
\* snapshot emitted by update_world
C22_Witness ==
    /\ world_config = 2
    /\ snapshot.kind = "update"
    /\ DOMAIN snapshot.entities = {0, 1, 2}
    /\ ecs_world.entities[1].position = << 0, 0, 10 >>
    /\ ecs_world.last_update_time = 40


\* The parent names of the loaded world description that name no actor
UnresolvedParents ==
    {a.parent : a \in {WorldConfigs[world_config].actors[i] :
                          i \in 1..Len(WorldConfigs[world_config].actors)}}
        \ ({""} \cup {WorldConfigs[world_config].actors[i].actor_name :
                        i \in 1..Len(WorldConfigs[world_config].actors)})

\* Every entity has a root above it: following Parent from it ends at an
\* entity with no Parent
ParentGraphIsForest ==
    \A i \in 1..Len(ecs_world.entities) :
        GlobalOf(ecs_world.entities, i, Len(ecs_world.entities)).found

\* C23: load_world fails whenever an entity names a parent that does not
\* resolve or the parent relation has a cycle (a self-parent included): a
\* load that succeeded had no unresolved parent, every entity with a parent
\* name has that entity as its Parent, and the parent graph is a forest
C23_LoadedParentsAreForest ==
    world_pc = "loaded" =>
        /\ UnresolvedParents = {}
        /\ \A i \in 1..Len(ecs_world.entities) :
              IF ecs_world.entities[i].parent = ""
              THEN ecs_world.entities[i].parent_entity = 0
              ELSE /\ ecs_world.entities[i].parent_entity # 0
                   /\ ecs_world.entities[ecs_world.entities[i].parent_entity].actor_name
                          = ecs_world.entities[i].parent
        /\ ParentGraphIsForest


\* C25: after each update_world that emits a snapshot, every entity's
\* WorldCoordinate NED (as stored and as the snapshot shows it) is its global
\* translation, the parent's global transform composed with its local one,
\* in the NED frame
C25_NedIsGlobalTranslation ==
    snapshot.kind = "update" =>
        \A i \in 1..Len(ecs_world.entities) :
            LET g == GlobalOf(ecs_world.entities, i, Len(ecs_world.entities))
            IN g.found =>
                  /\ ecs_world.entities[i].world_coord.ned.input = bevy_xyz_to_ned(g.t)
                  /\ snapshot.entities[i - 1].ned = bevy_xyz_to_ned(g.t)


\* The representation each mutator takes as its input
CoordFrames == {"ned", "lla", "ecef", "cartesian"}
MutatorFrame ==
    [op \in {"set_ned", "set_lla", "set_ecef", "set_cartesian"} |->
        CASE op = "set_ned" -> "ned"
          [] op = "set_lla" -> "lla"
          [] op = "set_ecef" -> "ecef"
          [] op = "set_cartesian" -> "cartesian"]

\* C26: each WorldCoordinate mutator recomputes all four stored
\* representations from its input: after a call, the one it was given holds
\* the input and each of the other three the conversion of that input
C26_AllFourRecomputed ==
    coord_call.op # "none" =>
        \A f \in CoordFrames :
            world_coord[f] =
                IF f = MutatorFrame[coord_call.op] THEN Given(coord_call.input)
                ELSE Conv(MutatorFrame[coord_call.op] \o "_to_" \o f, coord_call.input)


\* C32: update_world emits a snapshot and sets last_update_time to the sim
\* time if and only if sim_time - last_update_time >= update_interval;
\* otherwise it returns nothing and leaves last_update_time, every entity and
\* the last snapshot as they were (so two emitted snapshots are at least
\* update_interval apart)
C32_EmitsIffIntervalPassed ==
    [][(update_ret'.called /\ update_ret' # update_ret) =>
          IF update_ret'.sim_time - ecs_world.last_update_time
                 >= ecs_world.update_interval_ms
          THEN /\ update_ret'.emitted
               /\ snapshot'.kind = "update"
               /\ ecs_world'.last_update_time = update_ret'.sim_time
          ELSE /\ ~update_ret'.emitted
               /\ ecs_world' = ecs_world
               /\ snapshot' = snapshot]_vars

\* C32's case: with an update interval of 40 ms a call at 20 ms returned
\* nothing, with the load_scene_graph snapshot still the last one
C32_Witness ==
    /\ ecs_world.update_interval_ms = 40
    /\ update_ret.called /\ update_ret.sim_time = 20 /\ ~update_ret.emitted
    /\ ecs_world.last_update_time = 0
    /\ snapshot.kind = "load_scene_graph"


\* C36: after load_world every entity's WorldCoordinate has as its origin the
\* (latitude, longitude, altitude) of world.origin in the config
C36_EntitiesUseConfiguredOrigin ==
    world_pc = "loaded" =>
        \A i \in 1..Len(ecs_world.entities) :
            ecs_world.entities[i].world_coord.origin_lla
                = WorldConfigs[world_config].origin


\* C35: for a key, warn_rate_limited logs the warning if and only if it is
\* the first call for the key or at least min_interval has passed since the
\* warning last logged for that key (a suppressed call does not move that
\* time)
C35_LogsIffIntervalSinceLastLogged ==
    [][warn_call'.n = warn_call.n + 1 =>
          (warn_call'.logged <=>
              \/ last_logged[warn_call'.key] = -1
              \/ warn_call'.now - last_logged[warn_call'.key]
                     >= warn_call'.min_interval)]_vars

\* C35's case: a warning logged at 0, suppressed calls after it, and the key
\* logged again at 2 with min_interval 2
C35_Witness ==
    /\ warn_call = [n |-> 4, key |-> "k1", now |-> 2, min_interval |-> 2,
                    logged |-> TRUE]
    /\ last_logged["k1"] = 2
    /\ warning_timestamps["k1"] = [last_time |-> 2, count |-> 0]
    /\ "k2" \notin DOMAIN warning_timestamps


\* C40: a register call on the type registry or the middleware registry that
\* returns the "already registered" error leaves the registry unchanged: get
\* for that name still returns the entry registered first
C40_FailedRegisterChangesNothing ==
    [][/\ (reg_call'.op = "type_register" /\ reg_call'.ret = "Err"
             /\ reg_call'.name \in DOMAIN types)
          => (types' = types
              /\ get(types', reg_call'.name) = get(types, reg_call'.name))
       /\ (reg_call'.op = "middleware_register" /\ reg_call'.ret = "Err"
             /\ reg_call'.name \in DOMAIN middlewares)
          => (middlewares' = middlewares
              /\ get(middlewares', reg_call'.name)
                   = get(middlewares, reg_call'.name))]_vars


\* C31: the timestamp the callback hands on is metadata.timestamp_sim
\* whenever that is anything but the sentinel (seconds i32::MIN, nanoseconds
\* 0), and otherwise the sim time of the latest tick whose wall time is <=
\* metadata.timestamp_platform (zero when there is none)
C31_CallbackTimestamp ==
    clock_ret.op = "callback" =>
        IF clock_ret.sim # TimeStampNew(SentinelSeconds, 0)
        THEN clock_ret.val = clock_ret.sim
        ELSE LET S == TicksUpTo(real_to_sim_time, clock_ret.arg)
             IN clock_ret.val = IF S = {} THEN TimeStampNew(0, 0)
                                ELSE real_to_sim_time[MaxIdx(S)][2]


\* C39: in the handshake and initial-barrier wait loops the remaining time
\* computed as the timeout's seconds minus the elapsed whole seconds never
\* goes below zero, whatever the sleep or publish before it took
C39_RemainingNeverUnderflows ==
    ~wait.remaining.underflow


\* The component kinds a topic of the world description is registered for, as
\* (topic, actor, kind) triples: the actor's state topic, the state topic of
\* its flight deck, the topic of its trajectory visualization and the state
\* topics of its effectors; a kind is a name and the effector's index (0 for
\* the others)
RegisteredFor(c) ==
    LET actors == c.actors
    IN UNION {({<< actors[i].topic, actors[i].actor_name, << "actor_state", 0 >> >>,
                 << actors[i].pfd_topic, actors[i].actor_name, << "pfd", 0 >> >>,
                 << actors[i].trajectory_topic, actors[i].actor_name,
                    << "trajectory", 0 >> >>}
               \cup {<< actors[i].effector_topics[k], actors[i].actor_name,
                        << "effector", k >> >> :
                         k \in DOMAIN actors[i].effector_topics})
              : i \in DOMAIN actors}

\* The component kinds of entity i that differ between the worlds w1 and w2:
\* what a payload writes (the state with the Transform, the PFD data, the
\* trajectory, each effector's state), not what the systems derive from it
ChangedKinds(w1, w2, i) ==
    (IF w1.entities[i].position # w2.entities[i].position
        \/ w1.entities[i].translation # w2.entities[i].translation
     THEN {<< "actor_state", 0 >>} ELSE {})
    \cup (IF w1.entities[i].pfd # w2.entities[i].pfd THEN {<< "pfd", 0 >>} ELSE {})
    \cup (IF w1.entities[i].trajectory # w2.entities[i].trajectory
          THEN {<< "trajectory", 0 >>} ELSE {})
    \cup {<< "effector", k >> : k \in {j \in DOMAIN w1.entities[i].effectors :
             w1.entities[i].effectors[j] # w2.entities[i].effectors[j]}}

\* C33: an update_world call changes a component of an entity only if one of
\* the coalesced payloads came on a topic registered for that entity and that
\* component kind (actor state, PFD, trajectory, indexed effector); so a
\* payload on another entity's topic, on a topic registered for another kind
\* or on a topic in neither map changes nothing of it
C33_OnlyRegisteredComponentChanges ==
    [][\A i \in DOMAIN ecs_world.entities :
          \A kind \in ChangedKinds(ecs_world, ecs_world', i) :
              \E r \in routed' :
                  << r[1], ecs_world.entities[i].actor_name, kind >>
                      \in RegisteredFor(RouteConfig)]_vars


\* C34: the number of barrier notifications pending in the (timestamp, topic)
\* channel is bounded by a constant: it stays below the number the model
\* lets the channel hold, whatever that number is
C34_PendingNotificationsBounded ==
    Len(rx_msg) < MaxChan


\* C37: a message's state is in the scene-graph queue before its barrier
\* notification is sent, so when the notification of a message whose state
\* was appended releases the barrier of a tick, the queue drained at that
\* tick contains that state
C37_ReleasingMessageIsDrained ==
    (ord.pc = "publish" /\ ord.tick >= 1 /\ ord.released_by \in ord.with_state)
        => ord.released_by \in ord.drained


\* C38: whatever load(), start() and stop() calls are made on one
\* Orchestrator, at most one main-loop thread is alive at any time
C38_AtMostOneMainLoop ==
    Cardinality(thr.alive) <= 1

=============================================================================
